---- MODULE Spec2Model ----
(***************************************************************************)
(* Alert engine, market-data cache and subscription/broadcast layer of the *)
(* stock dashboard backend (backend/services: AlertService,                *)
(* MarketDataService, WebSocketService; models Alert and MarketData).      *)
(*                                                                         *)
(* Numbers (prices, volumes, percentages, targets) are fixed-point         *)
(* integers in thousandths: 5000 stands for 5.000.  Dates are integers in  *)
(* milliseconds since the server started.                                  *)
(***************************************************************************)
EXTENDS Integers, Sequences, FiniteSets, TLC

VARIABLES
    now,            \* the wall clock (Date.now()), in ms
    alertTimerDue,  \* the 60 s alertCheckInterval has a callback to run
    marketTimerDue, \* the 30 s marketDataInterval has a callback to run
    alerts,         \* the Alert collection: id -> document
    nextId,         \* next _id the Alert collection hands out
    cycles,         \* the invocations of AlertService.checkAlerts in flight
    mdStore,        \* the MarketData collection: a set of documents
    dispatched,     \* per alert id: calls of sendAlertNotification so far
    triggerEvents,  \* per alert id: times the stored isTriggered went
                    \* from false to true
    cache,          \* MarketDataService.cache: key -> {data, timestamp}
    yahoo,          \* per symbol: what the Yahoo chart endpoint answers now
                    \* (a set of at most one snapshot; empty: the call fails)
    alpha,          \* per symbol: what Alpha Vantage answers now
    sockets,        \* the socket.io connections: id -> [userId, rooms]
    connectedUsers, \* WebSocketService.connectedUsers: userId -> entry
    emitted,        \* the events the latest handler or timer callback of
                    \* WebSocketService emitted, with their payloads
    alertEvents,    \* the alert_triggered events emitted so far:
                    \* [room, alertId]
    broadcastSet,   \* the symbols the latest marketDataInterval tick
                    \* collected
    lastCall,       \* the latest call of getMarketData,
                    \* getBatchMarketData or cleanupExpiredAlerts by a
                    \* client of the service, and its outcome
    batch           \* the call of getBatchMarketData that is in progress
                    \* with its awaits as separate steps: the symbols and
                    \* the promise of each symbol

\* the state of WebSocketService
wsVars == <<sockets, connectedUsers, emitted, alertEvents, broadcastSet>>

\* the state of MarketDataService and WebSocketService
serviceVars == <<cache, yahoo, alpha, lastCall, batch, wsVars>>

\* the state of AlertService and the Alert collection
alertVars == <<alerts, nextId, cycles, dispatched, triggerEvents>>

vars == <<now, alertTimerDue, marketTimerDue, alerts, nextId, cycles,
          mdStore, dispatched, triggerEvents, serviceVars>>

----------------------------------------------------------------------------
(* Bounds of the model *)

MaxAlerts == 2      \* alerts ever created
MaxCycles == 2      \* checkAlerts invocations that can be in flight at once
MaxTime == 120000   \* the clock stops here
MaxSockets == 2     \* socket.io connections ever opened at once

(* Program constants *)

marketDataIntervalMs == 30000
alertCheckIntervalMs == 60000
cacheTimeout == 60000
EqualsEpsilon == 10            \* 0.01 in thousandths

Users == {"u1", "u2"}
Symbols == {"NIFTY", "TCS"}
AlertTypes == {"price", "volume", "change_percent", "technical"}
Conditions == {"above", "below", "equals"}
Targets == {5000}
AlertIds == 1..MaxAlerts
SocketIds == 1..MaxSockets
Anonymous == ""     \* socket.userId of a connection without a valid token
CycleIds == 1..MaxCycles

NoDate == -1

----------------------------------------------------------------------------
(* Helpers *)

Abs(x) == IF x < 0 THEN -x ELSE x

\* n / d rounded to the nearest integer, halves away from zero (d > 0)
RoundDiv(n, d) ==
    IF n >= 0 THEN (2 * n + d) \div (2 * d)
              ELSE -((2 * (-n) + d) \div (2 * d))

\* Number.toFixed(2): a value in thousandths rounded to a multiple of 0.01
ToFixed2(v) == 10 * RoundDiv(v, 10)

\* String.toUpperCase on the symbols clients send
InputSymbols == Symbols \cup {"tcs"}
ToUpperCase(s) == IF s = "tcs" THEN "TCS" ELSE s

Min(S) == CHOOSE x \in S : \A y \in S : x <= y

RECURSIVE SortedSeq(_)
\* the elements of a finite set of integers in increasing order
SortedSeq(S) ==
    IF S = {} THEN <<>> ELSE <<Min(S)>> \o SortedSeq(S \ {Min(S)})

----------------------------------------------------------------------------
(* Alert model (models/Alert.js) and the AlertService operations that     *)
(* create, update and delete alerts                                       *)

\* new Alert({...}) with the schema defaults
NewAlert(userId, symbol, alertType, condition, targetValue) ==
    [userId |-> userId,
     symbol |-> ToUpperCase(symbol),
     alertType |-> alertType,
     condition |-> condition,
     targetValue |-> targetValue,
     currentValue |-> 0,
     isActive |-> TRUE,
     isTriggered |-> FALSE,
     triggeredAt |-> NoDate,
     notificationSent |-> FALSE,
     expiresAt |-> NoDate]

\* alert.save() of a new document
InsertAlert(doc) ==
    /\ nextId <= MaxAlerts
    /\ alerts' = [i \in DOMAIN alerts \cup {nextId} |->
                    IF i = nextId THEN doc ELSE alerts[i]]
    /\ nextId' = nextId + 1
    /\ UNCHANGED <<now, alertTimerDue, marketTimerDue, cycles, mdStore,
                   dispatched, triggerEvents,
                   serviceVars>>

createPriceAlert(userId, symbol, condition, targetValue) ==
    InsertAlert(NewAlert(userId, symbol, "price", condition, targetValue))

createVolumeAlert(userId, symbol, condition, targetValue) ==
    InsertAlert(NewAlert(userId, symbol, "volume", condition, targetValue))

createChangePercentAlert(userId, symbol, condition, targetValue) ==
    InsertAlert(NewAlert(userId, symbol, "change_percent", condition,
                         targetValue))

\* The update documents callers pass to updateAlert ({ $set: updates })
ExpiryInputs == {90000}
UpdateInputs ==
    {[isActive |-> FALSE], [isActive |-> TRUE], [isTriggered |-> FALSE],
     [alertType |-> "technical"]}
      \cup {[expiresAt |-> e] : e \in ExpiryInputs}

\* one path of { $set: updates }
SetPath(updates, path, old) ==
    IF path \in DOMAIN updates THEN updates[path] ELSE old

\* { $set: updates } applied to a stored document
ApplySet(doc, updates) ==
    [userId |-> SetPath(updates, "userId", doc.userId),
     symbol |-> SetPath(updates, "symbol", doc.symbol),
     alertType |-> SetPath(updates, "alertType", doc.alertType),
     condition |-> SetPath(updates, "condition", doc.condition),
     targetValue |-> SetPath(updates, "targetValue", doc.targetValue),
     currentValue |-> SetPath(updates, "currentValue", doc.currentValue),
     isActive |-> SetPath(updates, "isActive", doc.isActive),
     isTriggered |-> SetPath(updates, "isTriggered", doc.isTriggered),
     triggeredAt |-> SetPath(updates, "triggeredAt", doc.triggeredAt),
     notificationSent |->
         SetPath(updates, "notificationSent", doc.notificationSent),
     expiresAt |-> SetPath(updates, "expiresAt", doc.expiresAt)]

\* Alert.findOneAndUpdate({ _id: alertId, userId }, { $set: updates });
\* a call that matches no document throws 'Alert not found' and changes
\* nothing
updateAlert(alertId, userId, updates) ==
    /\ alertId \in DOMAIN alerts
    /\ alerts[alertId].userId = userId
    /\ alerts' = [alerts EXCEPT ![alertId] = ApplySet(@, updates)]
    /\ UNCHANGED <<now, alertTimerDue, marketTimerDue, nextId, cycles,
                   mdStore, dispatched, triggerEvents,
                   serviceVars>>

\* Alert.findOneAndUpdate({ _id: alertId, userId }, { isActive: false })
deleteAlert(alertId, userId) ==
    /\ alertId \in DOMAIN alerts
    /\ alerts[alertId].userId = userId
    /\ alerts' = [alerts EXCEPT ![alertId].isActive = FALSE]
    /\ UNCHANGED <<now, alertTimerDue, marketTimerDue, nextId, cycles,
                   mdStore, dispatched, triggerEvents,
                   serviceVars>>

\* Alert.updateMany({ expiresAt: { $lt: now }, isActive: true },
\*                  { isActive: false })
\* a filter that also asks for an alert that has not triggered
ExpiredActiveUntriggered(doc, t) ==
    doc.expiresAt # NoDate /\ doc.expiresAt < t /\ doc.isActive
        /\ ~doc.isTriggered

ExpiredActive(doc, t) ==
    doc.expiresAt # NoDate /\ doc.expiresAt < t /\ doc.isActive

\* result.modifiedCount of the updateMany: the documents the filter matches
\* (each of them is active, so each is modified)
ModifiedCount(t) ==
    Cardinality({i \in DOMAIN alerts : ExpiredActive(alerts[i], t)})

cleanupExpiredAlerts ==
    /\ alerts' = [i \in DOMAIN alerts |->
                    IF ExpiredActive(alerts[i], now)
                    THEN [alerts[i] EXCEPT !.isActive = FALSE]
                    ELSE alerts[i]]
    /\ lastCall' = [op |-> "cleanupExpiredAlerts", symbols |-> <<>>,
                    useCache |-> TRUE, status |-> "resolved",
                    data |-> {ModifiedCount(now)}, at |-> now]
    /\ UNCHANGED <<now, alertTimerDue, marketTimerDue, nextId, cycles,
                   mdStore, dispatched, triggerEvents,
                   cache, yahoo, alpha, batch, wsVars>>

\* the TTL index { expiresAt: 1 }, expireAfterSeconds: 0: the database
\* removes a document once its expiresAt has passed
TTLIndexDelete(alertId) ==
    /\ alertId \in DOMAIN alerts
    /\ alerts[alertId].expiresAt # NoDate
    /\ alerts[alertId].expiresAt <= now
    /\ alerts' = [i \in DOMAIN alerts \ {alertId} |-> alerts[i]]
    /\ UNCHANGED <<now, alertTimerDue, marketTimerDue, nextId, cycles,
                   mdStore, dispatched, triggerEvents,
                   serviceVars>>

----------------------------------------------------------------------------
(* MarketData model and the upstream providers                            *)

\* What the Yahoo chart endpoint can answer for a symbol: meta
\* regularMarketPrice, previousClose, regularMarketVolume
YahooSnapshots ==
    {[regularMarketPrice |-> 4750, previousClose |-> 5000,
      regularMarketVolume |-> 4000],
     [regularMarketPrice |-> 5000, previousClose |-> 5000,
      regularMarketVolume |-> 5000],
     [regularMarketPrice |-> 5250, previousClose |-> 5000,
      regularMarketVolume |-> 6000]}

\* the quote fetchFromYahoo builds from a chart result at time t
YahooQuote(symbol, meta, t) ==
    LET change == meta.regularMarketPrice - meta.previousClose IN
    [symbol |-> ToUpperCase(symbol),
     price |-> ToFixed2(meta.regularMarketPrice),
     changePercent |->
         10 * RoundDiv(change * 100 * 100, meta.previousClose),
     volume |-> meta.regularMarketVolume,
     timestamp |-> t,
     source |-> "yahoo_finance"]

\* What Alpha Vantage's GLOBAL_QUOTE can answer for a symbol
AlphaSnapshots ==
    {[price |-> 5005, changePercent |-> 100, volume |-> 7000]}

\* the quote fetchFromAlphaVantage parses from a Global Quote at time t
AlphaQuote(symbol, quote, t) ==
    [symbol |-> ToUpperCase(symbol),
     price |-> quote.price,
     changePercent |-> quote.changePercent,
     volume |-> quote.volume,
     timestamp |-> t,
     source |-> "alpha_vantage"]

\* the MarketData document saveMarketData writes for a quote
StoreDoc(data, t) ==
    [symbol |-> data.symbol,
     price |-> data.price,
     changePercent |-> data.changePercent,
     volume |-> data.volume,
     source |-> data.source,
     lastUpdated |-> t]

\* a write that inserts a document whether or not the symbol has one
UpsertInsertOnly(store, data, t) ==
    store \cup {StoreDoc(data, t)}

\* MarketData.findOneAndUpdate({ symbol }, {...data, lastUpdated: new Date()},
\* { upsert: true }): one document of the symbol is replaced, or one is
\* inserted
Upsert(store, data, t) ==
    LET same == {d \in store : d.symbol = data.symbol} IN
    IF same = {} THEN store \cup {StoreDoc(data, t)}
    ELSE LET old == CHOOSE d \in same :
                        \A e \in same : d.lastUpdated >= e.lastUpdated
         IN (store \ {old}) \cup {StoreDoc(data, t)}

\* MarketData.getMultiple(symbols): the documents of these symbols, sorted by
\* lastUpdated descending, as a sequence
RECURSIVE SortByLastUpdatedDesc(_)
SortByLastUpdatedDesc(docs) ==
    IF docs = {} THEN <<>>
    ELSE LET d == CHOOSE x \in docs :
                      \A y \in docs : x.lastUpdated >= y.lastUpdated
         IN <<d>> \o SortByLastUpdatedDesc(docs \ {d})

getMultiple(symbols) ==
    SortByLastUpdatedDesc(
        {d \in mdStore : d.symbol \in {ToUpperCase(s) : s \in symbols}})

\* saveMarketData(data) for a quote fetchFromYahoo has just built: the write
\* path of the market-data service into the MarketData collection
saveMarketData(symbol, meta) ==
    /\ mdStore' = Upsert(mdStore, YahooQuote(symbol, meta, now), now)
    /\ UNCHANGED <<now, alertTimerDue, marketTimerDue, alerts, nextId,
                   cycles, dispatched, triggerEvents,
                   serviceVars>>

\* two calls of saveMarketData for a symbol that has no document yet, in
\* progress at the same time: each findOneAndUpdate finds nothing and
\* inserts (the collection has no unique index on symbol), so the symbol
\* gets two documents
saveMarketDataRace(symbol, meta1, meta2) ==
    /\ meta1 # meta2
    /\ \A d \in mdStore : d.symbol # ToUpperCase(symbol)
    /\ mdStore' = mdStore \cup {StoreDoc(YahooQuote(symbol, meta1, now), now),
                                 StoreDoc(YahooQuote(symbol, meta2, now), now)}
    /\ UNCHANGED <<now, alertTimerDue, marketTimerDue, alerts, nextId,
                   cycles, dispatched, triggerEvents,
                   serviceVars>>

----------------------------------------------------------------------------
(* MarketDataService *)

\* formatSymbolForYahoo: the index aliases, else the symbol with ".NS"
formatSymbolForYahoo(symbol) ==
    CASE symbol = "NIFTY" -> "^NSEI"
      [] symbol = "SENSEX" -> "^BSESN"
      [] symbol = "BANKNIFTY" -> "^NSEBANK"
      [] symbol = "TCS" -> "TCS.NS"
      [] symbol = "tcs" -> "tcs.NS"

YahooSymbols == {formatSymbolForYahoo(s) : s \in InputSymbols}

\* the chart Yahoo serves when the server starts
InitialSnapshot ==
    [regularMarketPrice |-> 5000, previousClose |-> 5000,
     regularMarketVolume |-> 5000]

\* fetchFromYahoo: the quote, or null (the empty set) when the call fails
\* or the chart has no result
fetchFromYahoo(symbol, t) ==
    {YahooQuote(symbol, meta, t) : meta \in yahoo[formatSymbolForYahoo(symbol)]}

\* fetchFromAlphaVantage: the quote, or null when there is no API key, the
\* call fails or the answer has no Global Quote
fetchFromAlphaVantage(symbol, t) ==
    {AlphaQuote(symbol, quote, t) : quote \in alpha[symbol]}

\* a fallback chain that asks Alpha Vantage first
fetchFromExternalAPIAlphaFirst(symbol, t) ==
    IF fetchFromAlphaVantage(symbol, t) # {}
    THEN fetchFromAlphaVantage(symbol, t)
    ELSE fetchFromYahoo(symbol, t)

\* fetchFromExternalAPI: Yahoo first, Alpha Vantage as the fallback
fetchFromExternalAPI(symbol, t) ==
    IF fetchFromYahoo(symbol, t) # {} THEN fetchFromYahoo(symbol, t)
    ELSE fetchFromAlphaVantage(symbol, t)

\* the providers fetchFromExternalAPI calls, in order: fetchFromYahoo is
\* awaited first, fetchFromAlphaVantage only when it resolved with null
ProviderCalls(symbol, t) ==
    IF fetchFromYahoo(symbol, t) # {} THEN <<"yahoo_finance">>
    ELSE <<"yahoo_finance", "alpha_vantage">>

\* MarketData.getLatest(symbol): the newest document of the symbol, or null
getLatest(store, symbol) ==
    LET same == {d \in store : d.symbol = ToUpperCase(symbol)} IN
    {d \in same : \A e \in same : d.lastUpdated >= e.lastUpdated}

\* formatMarketData(dbData)
formatMarketData(dbData) ==
    [symbol |-> dbData.symbol,
     price |-> dbData.price,
     changePercent |-> dbData.changePercent,
     volume |-> dbData.volume,
     timestamp |-> dbData.lastUpdated,
     source |-> dbData.source]

\* this.cache.set(cacheKey, { data, timestamp: Date.now() })
CacheSet(c, key, data, t) ==
    [k \in DOMAIN c \cup {key} |->
        IF k = key THEN [data |-> data, timestamp |-> t] ELSE c[k]]

\* a cache that counts an entry as usable for half of cacheTimeout
CacheHitHalfTimeout(c, key, t) ==
    key \in DOMAIN c /\ 2 * (t - c[key].timestamp) < cacheTimeout

\* the cache holds an entry of the key that is younger than cacheTimeout
CacheHit(c, key, t) ==
    key \in DOMAIN c /\ t - c[key].timestamp < cacheTimeout

\* getMarketData(symbol, useCache) at time t on cache c and collection
\* store; readOk / saveOk: the collection answers the read / the write.
\* The outcome: kind "data" with the quote in data, kind "null" (the
\* promise resolves with null) or kind "throw", and the cache and the
\* collection as the call leaves them.
getMarketData(symbol, useCache, c, store, t, readOk, saveOk) ==
    LET dbData == getLatest(store, symbol)
        freshData == fetchFromExternalAPI(symbol, t)
    IN
    IF useCache /\ CacheHit(c, symbol, t)
    THEN [kind |-> "data", data |-> {c[symbol].data}, cache |-> c,
          store |-> store]
    ELSE IF ~readOk
    THEN \* catch (error): the cached data if there is any, else rethrow
         IF symbol \in DOMAIN c
         THEN [kind |-> "data", data |-> {c[symbol].data}, cache |-> c,
               store |-> store]
         ELSE [kind |-> "throw", data |-> {}, cache |-> c, store |-> store]
    ELSE IF \E d \in dbData : t - d.lastUpdated < cacheTimeout
    THEN LET data == formatMarketData(CHOOSE d \in dbData : TRUE) IN
         [kind |-> "data", data |-> {data},
          cache |-> CacheSet(c, symbol, data, t), store |-> store]
    ELSE IF freshData # {}
    THEN LET data == CHOOSE q \in freshData : TRUE IN
         [kind |-> "data", data |-> {data},
          cache |-> CacheSet(c, symbol, data, t),
          store |-> IF saveOk THEN Upsert(store, data, t) ELSE store]
    ELSE IF dbData # {}
    THEN [kind |-> "data",
          data |-> {formatMarketData(CHOOSE d \in dbData : TRUE)},
          cache |-> c, store |-> store]
    ELSE [kind |-> "null", data |-> {}, cache |-> c, store |-> store]

\* symbols.map(symbol => this.getMarketData(symbol).catch(...)) and
\* Promise.all: the outcomes of the calls, in order, each working on the
\* cache and the collection the call before it left
RECURSIVE BatchOutcomes(_, _, _, _, _, _)
BatchOutcomes(symbols, c, store, t, readOk, saveOk) ==
    IF symbols = <<>> THEN <<>>
    ELSE LET r == getMarketData(Head(symbols), TRUE, c, store, t, readOk,
                                saveOk)
         IN <<[symbol |-> Head(symbols), outcome |-> r]>>
              \o BatchOutcomes(Tail(symbols), r.cache, r.store, t, readOk,
                               saveOk)

\* the key results.forEach files an outcome under: result.symbol
ResultKey(o) ==
    IF o.outcome.kind = "data"
    THEN (CHOOSE q \in o.outcome.data : TRUE).symbol
    ELSE o.symbol

\* the entry results.forEach builds for an outcome
ResultEntry(o) ==
    IF o.outcome.kind = "throw"
    THEN [status |-> "error", message |-> "error.message"]
    ELSE [status |-> "success",
          data |-> CHOOSE q \in o.outcome.data : TRUE]

\* getBatchMarketData(symbols): status "rejected" when results.forEach
\* reads result.error of a null result (a TypeError), else "resolved" with
\* data, the object keyed by symbol
getBatchMarketData(symbols, c, store, t, readOk, saveOk) ==
    LET outcomes == BatchOutcomes(symbols, c, store, t, readOk, saveOk)
        n == Len(outcomes)
        final == IF n = 0 THEN [cache |-> c, store |-> store]
                 ELSE [cache |-> outcomes[n].outcome.cache,
                       store |-> outcomes[n].outcome.store]
    IN
    IF \E k \in 1..n : outcomes[k].outcome.kind = "null"
    THEN [status |-> "rejected", data |-> <<>>, cache |-> final.cache,
          store |-> final.store]
    ELSE [status |-> "resolved",
          data |-> [key \in {ResultKey(outcomes[k]) : k \in 1..n} |->
                      LET last == CHOOSE k \in 1..n :
                                     /\ ResultKey(outcomes[k]) = key
                                     /\ \A j \in 1..n :
                                           ResultKey(outcomes[j]) = key
                                              => j <= k
                      IN ResultEntry(outcomes[last])],
          cache |-> final.cache, store |-> final.store]

\* lastCall: op is the method called, symbols its argument (one symbol for
\* getMarketData), status how it ended, data what it returned (a set of at
\* most one quote for getMarketData, the object keyed by symbol for
\* getBatchMarketData, the set of the one count for cleanupExpiredAlerts),
\* at the time of the call
NoCall ==
    [op |-> "none", symbols |-> <<>>, useCache |-> TRUE, status |-> "none",
     data |-> {}, at |-> 0]

\* a caller (a market route, a scheduled task) awaits getMarketData
CallGetMarketData(symbol, useCache, readOk, saveOk) ==
    /\ LET r == getMarketData(symbol, useCache, cache, mdStore, now, readOk,
                              saveOk)
       IN /\ cache' = r.cache
          /\ mdStore' = r.store
          /\ lastCall' = [op |-> "getMarketData", symbols |-> <<symbol>>,
                          useCache |-> useCache, status |-> r.kind,
                          data |-> r.data, at |-> now]
    /\ UNCHANGED <<now, alertTimerDue, marketTimerDue, alertVars, yahoo,
                   alpha, batch, wsVars>>

\* a caller (the scheduled market-data update) awaits getBatchMarketData
CallGetBatchMarketData(symbols, readOk, saveOk) ==
    /\ LET r == getBatchMarketData(symbols, cache, mdStore, now, readOk,
                                   saveOk)
       IN /\ cache' = r.cache
          /\ mdStore' = r.store
          /\ lastCall' = [op |-> "getBatchMarketData", symbols |-> symbols,
                          useCache |-> TRUE, status |-> r.status,
                          data |-> r.data, at |-> now]
    /\ UNCHANGED <<now, alertTimerDue, marketTimerDue, alertVars, yahoo,
                   alpha, batch, wsVars>>

\* getBatchMarketData with its awaits as separate steps.  batch.promises[k]
\* is the promise symbols.map made for symbols[k]: its outcome is pending
\* until the getMarketData call of that symbol settles.
NoBatch == [symbols |-> <<>>, promises |-> <<>>]

Pending == [kind |-> "pending", data |-> {}]

\* the promise of a call of getMarketData that has run up to its first await:
\* settled with the cached data on a cache hit, else pending at
\* MarketData.getLatest
StartedPromise(symbol, c, t) ==
    [symbol |-> symbol,
     outcome |-> IF CacheHit(c, symbol, t)
                 THEN [kind |-> "data", data |-> {c[symbol].data}]
                 ELSE Pending]

\* a batch that calls getMarketData for the first symbol only and leaves the
\* others for later
StartedPromisesFirstOnly(symbols, c, t) ==
    [k \in 1..1 |-> StartedPromise(symbols[k], c, t)]

\* symbols.map(symbol => this.getMarketData(symbol).catch(...)): every call
\* is made, and runs up to its first await, before the map returns
StartedPromises(symbols, c, t) ==
    [k \in 1..Len(symbols) |-> StartedPromise(symbols[k], c, t)]

StartBatch(symbols) ==
    /\ batch = NoBatch
    /\ batch' = [symbols |-> symbols,
                 promises |-> StartedPromises(symbols, cache, now)]
    /\ UNCHANGED <<now, alertTimerDue, marketTimerDue, alertVars, mdStore,
                   cache, yahoo, alpha, lastCall, wsVars>>

\* the call of getMarketData behind promise k goes on from its first await
\* to its end (the store read, the providers, the store write, the cache),
\* and .catch turns a rejection into an error entry
SettlePromise(k, readOk, saveOk) ==
    /\ k \in DOMAIN batch.promises
    /\ batch.promises[k].outcome = Pending
    /\ LET r == getMarketData(batch.promises[k].symbol, FALSE, cache,
                              mdStore, now, readOk, saveOk)
       IN /\ cache' = r.cache
          /\ mdStore' = r.store
          /\ batch' = [batch EXCEPT !.promises[k].outcome =
                          [kind |-> r.kind, data |-> r.data]]
    /\ UNCHANGED <<now, alertTimerDue, marketTimerDue, alertVars, yahoo,
                   alpha, lastCall, wsVars>>

\* await Promise.all(promises) and results.forEach: the batch rejects when
\* a result is null, else it resolves with the object keyed by symbol
ResolveBatch ==
    /\ batch # NoBatch
    /\ Len(batch.promises) = Len(batch.symbols)
    /\ \A k \in DOMAIN batch.promises : batch.promises[k].outcome # Pending
    /\ LET outcomes == batch.promises
           n == Len(outcomes)
           keys == {ResultKey(outcomes[k]) : k \in 1..n}
       IN lastCall' =
            IF \E k \in 1..n : outcomes[k].outcome.kind = "null"
            THEN [op |-> "getBatchMarketData", symbols |-> batch.symbols,
                  useCache |-> TRUE, status |-> "rejected", data |-> <<>>,
                  at |-> now]
            ELSE [op |-> "getBatchMarketData", symbols |-> batch.symbols,
                  useCache |-> TRUE, status |-> "resolved",
                  data |-> [key \in keys |->
                              LET last == CHOOSE k \in 1..n :
                                             /\ ResultKey(outcomes[k]) = key
                                             /\ \A j \in 1..n :
                                                   ResultKey(outcomes[j]) = key
                                                      => j <= k
                              IN ResultEntry(outcomes[last])],
                  at |-> now]
    /\ batch' = NoBatch
    /\ UNCHANGED <<now, alertTimerDue, marketTimerDue, alertVars, mdStore,
                   cache, yahoo, alpha, wsVars>>

\* clearCache(), run by the hourly scheduled task
clearCache ==
    /\ cache' = <<>>
    /\ UNCHANGED <<now, alertTimerDue, marketTimerDue, alertVars, mdStore,
                   yahoo, alpha, lastCall, batch, wsVars>>

\* the environment: what Yahoo answers for a provider symbol changes
YahooChanges(ysymbol, answer) ==
    /\ yahoo[ysymbol] # answer
    /\ yahoo' = [yahoo EXCEPT ![ysymbol] = answer]
    /\ UNCHANGED <<now, alertTimerDue, marketTimerDue, alertVars, mdStore,
                   cache, alpha, lastCall, batch, wsVars>>

\* the environment: what Alpha Vantage answers for a symbol changes
AlphaChanges(symbol, answer) ==
    /\ alpha[symbol] # answer
    /\ alpha' = [alpha EXCEPT ![symbol] = answer]
    /\ UNCHANGED <<now, alertTimerDue, marketTimerDue, alertVars, mdStore,
                   cache, yahoo, lastCall, batch, wsVars>>

----------------------------------------------------------------------------
(* WebSocketService *)

\* room names: `market_${symbol}`, `alerts_${userId}`, `portfolio_${userId}`,
\* `news_${category}`
Room(kind, key) == <<kind, key>>

RECURSIVE SetToSeq(_)
\* Array.from(set)
SetToSeq(S) ==
    IF S = {} THEN <<>>
    ELSE LET x == CHOOSE y \in S : TRUE IN <<x>> \o SetToSeq(S \ {x})

SeqToSet(q) == {q[k] : k \in 1..Len(q)}

\* io.on('connection'): the middleware has set socket.userId for a valid
\* token (userId # Anonymous); an authenticated connection is stored in
\* connectedUsers under its user id
Connect(socket, userId) ==
    /\ socket \notin DOMAIN sockets
    /\ sockets' = [k \in DOMAIN sockets \cup {socket} |->
                     IF k = socket THEN [userId |-> userId, rooms |-> {}]
                     ELSE sockets[k]]
    /\ connectedUsers' =
          IF userId # Anonymous
          THEN [u \in DOMAIN connectedUsers \cup {userId} |->
                  IF u = userId
                  THEN [socketId |-> socket, subscriptions |-> {}]
                  ELSE connectedUsers[u]]
          ELSE connectedUsers
    /\ emitted' = {}
    /\ UNCHANGED <<now, alertTimerDue, marketTimerDue, alertVars, mdStore,
                   cache, yahoo, alpha, lastCall, batch, alertEvents,
                   broadcastSet>>

\* user.subscriptions after the forEach of a (un)subscription of socket
Subscriptions(socket, symbols, add) ==
    LET userId == sockets[socket].userId
        upper == {ToUpperCase(s) : s \in SeqToSet(symbols)}
    IN
    IF userId # Anonymous /\ userId \in DOMAIN connectedUsers
    THEN [connectedUsers EXCEPT ![userId].subscriptions =
             IF add THEN @ \cup upper ELSE @ \ upper]
    ELSE connectedUsers

\* handleMarketDataSubscription(socket, symbols), with sendCurrentMarketData:
\* the batch for the symbols, emitted to the socket when it resolves
handleMarketDataSubscription(socket, symbols, readOk, saveOk) ==
    /\ socket \in DOMAIN sockets
    /\ sockets' = [sockets EXCEPT ![socket].rooms =
          @ \cup {Room("market", ToUpperCase(s)) : s \in SeqToSet(symbols)}]
    /\ connectedUsers' = Subscriptions(socket, symbols, TRUE)
    /\ LET r == getBatchMarketData(symbols, cache, mdStore, now, readOk,
                                   saveOk)
       IN /\ cache' = r.cache
          /\ mdStore' = r.store
          /\ emitted' =
                IF r.status = "resolved"
                THEN {[to |-> <<"socket", socket>>,
                       event |-> "market_data_update", data |-> r.data]}
                ELSE {}
    /\ UNCHANGED <<now, alertTimerDue, marketTimerDue, alertVars, yahoo,
                   alpha, lastCall, batch, alertEvents, broadcastSet>>

\* handleMarketDataUnsubscription(socket, symbols)
handleMarketDataUnsubscription(socket, symbols) ==
    /\ socket \in DOMAIN sockets
    /\ sockets' = [sockets EXCEPT ![socket].rooms =
          @ \ {Room("market", ToUpperCase(s)) : s \in SeqToSet(symbols)}]
    /\ connectedUsers' = Subscriptions(socket, symbols, FALSE)
    /\ emitted' = {}
    /\ UNCHANGED <<now, alertTimerDue, marketTimerDue, alertVars, mdStore,
                   cache, yahoo, alpha, lastCall, batch, alertEvents,
                   broadcastSet>>

\* subscribe_portfolio / subscribe_alerts without `if (socket.userId)`
SubscribeUserRoomUnguarded(socket, kind) ==
    /\ socket \in DOMAIN sockets
    /\ sockets' = [sockets EXCEPT ![socket].rooms =
                      @ \cup {Room(kind, sockets[socket].userId)}]
    /\ emitted' = {}
    /\ UNCHANGED <<now, alertTimerDue, marketTimerDue, alertVars, mdStore,
                   cache, yahoo, alpha, lastCall, batch, connectedUsers,
                   alertEvents, broadcastSet>>

\* socket.on('subscribe_portfolio') / socket.on('subscribe_alerts'): joins
\* the room of the socket's own user, if it has one
SubscribeUserRoom(socket, kind) ==
    /\ socket \in DOMAIN sockets
    /\ sockets' =
          IF sockets[socket].userId # Anonymous
          THEN [sockets EXCEPT ![socket].rooms =
                   @ \cup {Room(kind, sockets[socket].userId)}]
          ELSE sockets
    /\ emitted' = {}
    /\ UNCHANGED <<now, alertTimerDue, marketTimerDue, alertVars, mdStore,
                   cache, yahoo, alpha, lastCall, batch, connectedUsers,
                   alertEvents, broadcastSet>>

\* handleNewsSubscription(socket, categories)
handleNewsSubscription(socket, categories) ==
    /\ socket \in DOMAIN sockets
    /\ sockets' = [sockets EXCEPT ![socket].rooms =
          @ \cup {Room("news", cat) : cat \in SeqToSet(categories)}]
    /\ emitted' = {}
    /\ UNCHANGED <<now, alertTimerDue, marketTimerDue, alertVars, mdStore,
                   cache, yahoo, alpha, lastCall, batch, connectedUsers,
                   alertEvents, broadcastSet>>

\* handleDisconnection without connectedUsers.delete(socket.userId)
handleDisconnectionKeepsUser(socket) ==
    /\ socket \in DOMAIN sockets
    /\ sockets' = [k \in DOMAIN sockets \ {socket} |-> sockets[k]]
    /\ emitted' = {}
    /\ UNCHANGED <<now, alertTimerDue, marketTimerDue, alertVars, mdStore,
                   cache, yahoo, alpha, lastCall, batch, connectedUsers,
                   alertEvents, broadcastSet>>

\* handleDisconnection(socket); socket.io takes the socket out of its rooms
handleDisconnection(socket) ==
    /\ socket \in DOMAIN sockets
    /\ sockets' = [k \in DOMAIN sockets \ {socket} |-> sockets[k]]
    /\ connectedUsers' =
          [u \in DOMAIN connectedUsers \ {sockets[socket].userId} |->
              connectedUsers[u]]
    /\ emitted' = {}
    /\ UNCHANGED <<now, alertTimerDue, marketTimerDue, alertVars, mdStore,
                   cache, yahoo, alpha, lastCall, batch, alertEvents,
                   broadcastSet>>

\* broadcastMarketDataUpdate emitting the whole batch to every room
MarketDataEventsWholeBatch(symbols, marketData) ==
    {[to |-> Room("market", ToUpperCase(s)),
      event |-> "market_data_update",
      data |-> marketData] : s \in SeqToSet(symbols)}

\* the events broadcastMarketDataUpdate emits for a resolved batch: to each
\* symbol's room an object with that symbol's entry of marketData
MarketDataEvents(symbols, marketData) ==
    {[to |-> Room("market", ToUpperCase(s)),
      event |-> "market_data_update",
      data |-> [key \in {ToUpperCase(s)} \cap DOMAIN marketData |->
                   marketData[key]]] : s \in SeqToSet(symbols)}

\* the setInterval callback of marketDataInterval: the union of the
\* subscriptions in connectedUsers, and broadcastMarketDataUpdate for it if
\* it is not empty
MarketDataTick(readOk, saveOk) ==
    /\ marketTimerDue
    /\ marketTimerDue' = FALSE
    /\ LET subscribedSymbols ==
               UNION {connectedUsers[u].subscriptions :
                         u \in DOMAIN connectedUsers}
           symbols == SetToSeq(subscribedSymbols)
           r == getBatchMarketData(symbols, cache, mdStore, now, readOk,
                                   saveOk)
       IN /\ broadcastSet' = subscribedSymbols
          /\ IF subscribedSymbols = {}
             THEN /\ emitted' = {}
                  /\ UNCHANGED <<cache, mdStore>>
             ELSE /\ cache' = r.cache
                  /\ mdStore' = r.store
                  /\ emitted' = IF r.status = "resolved"
                                THEN MarketDataEvents(symbols, r.data)
                                ELSE {}
    /\ UNCHANGED <<now, alertTimerDue, alertVars, yahoo, alpha, lastCall, batch,
                   sockets, connectedUsers, alertEvents>>

\* broadcastAlertToUser(userId, alert): emits alert_triggered to the room
\* alerts_<userId>.  Nothing in the repository calls it.
broadcastAlertToUser(userId, alertId) ==
    /\ alertEvents' =
          alertEvents \cup {[room |-> Room("alerts", userId),
                             alertId |-> alertId]}
    /\ emitted' = {[to |-> Room("alerts", userId),
                    event |-> "alert_triggered", data |-> alertId]}
    /\ UNCHANGED <<now, alertTimerDue, marketTimerDue, alertVars, mdStore,
                   cache, yahoo, alpha, lastCall, batch, sockets,
                   connectedUsers,
                   broadcastSet>>

\* the symbols whose room market_<SYMBOL> has at least one member
JoinedSymbols ==
    {s \in Symbols :
        \E k \in DOMAIN sockets : Room("market", s) \in sockets[k].rooms}

----------------------------------------------------------------------------
(* AlertService.checkAlerts, one invocation per tick of alertCheckInterval *)

\* the eligibility filter without its isTriggered: false
EligibleIgnoringTriggered(doc, t) ==
    /\ doc.isActive
    /\ (doc.expiresAt = NoDate \/ doc.expiresAt > t)

\* the filter of the eligibility query, with new Date() = t
Eligible(doc, t) ==
    /\ doc.isActive
    /\ ~doc.isTriggered
    /\ (doc.expiresAt = NoDate \/ doc.expiresAt > t)

\* Alert.find(...): the matching documents in insertion order, each with
\* its _id
FindEligible(t) ==
    LET ids == SortedSeq({i \in DOMAIN alerts : Eligible(alerts[i], t)}) IN
    [k \in 1..Len(ids) |-> [id |-> ids[k], doc |-> alerts[ids[k]]]]

\* marketDataList.forEach(data => marketDataMap[data.symbol] = data)
MarketDataMap(list) ==
    [s \in {list[k].symbol : k \in 1..Len(list)} |->
        LET last == CHOOSE k \in 1..Len(list) :
                        /\ list[k].symbol = s
                        /\ \A j \in 1..Len(list) :
                              list[j].symbol = s => j <= k
            d == list[last]
        IN \* the fields of the document that checkAlerts reads
           [price |-> d.price, volume |-> d.volume,
            changePercent |-> d.changePercent]]

\* switch (alert.alertType): the value compared with the target
KnownAlertType(alertType) ==
    alertType \in {"price", "volume", "change_percent"}

ObservedValue(alertType, marketData) ==
    CASE alertType = "price" -> marketData.price
      [] alertType = "volume" -> marketData.volume
      [] alertType = "change_percent" -> marketData.changePercent

\* the switch with an inclusive epsilon for equals
ShouldTriggerInclusiveEpsilon(condition, currentValue, targetValue) ==
    CASE condition = "above" -> currentValue > targetValue
      [] condition = "below" -> currentValue < targetValue
      [] condition = "equals" ->
            Abs(currentValue - targetValue) <= EqualsEpsilon
      [] OTHER -> FALSE

\* switch (alert.condition)
ShouldTrigger(condition, currentValue, targetValue) ==
    CASE condition = "above" -> currentValue > targetValue
      [] condition = "below" -> currentValue < targetValue
      [] condition = "equals" ->
            Abs(currentValue - targetValue) < EqualsEpsilon
      [] OTHER -> FALSE

\* document.save(): only the paths whose value differs from what the
\* document held when it was loaded (or last saved) are written
SaveDelta(stored, loaded, local) ==
    [stored EXCEPT
        !.currentValue =
            IF local.currentValue # loaded.currentValue
            THEN local.currentValue ELSE @,
        !.isTriggered =
            IF local.isTriggered # loaded.isTriggered
            THEN local.isTriggered ELSE @,
        !.triggeredAt =
            IF local.triggeredAt # loaded.triggeredAt
            THEN local.triggeredAt ELSE @,
        !.notificationSent =
            IF local.notificationSent # loaded.notificationSent
            THEN local.notificationSent ELSE @]

IdleCycle(result) ==
    [pc |-> "idle", activeAlerts |-> <<>>, marketDataMap |-> <<>>,
     idx |-> 0, triggeredCount |-> 0, result |-> result]

NoResult == [status |-> "none", checked |-> 0, triggered |-> 0]
Returned(checked, triggered) ==
    [status |-> "returned", checked |-> checked, triggered |-> triggered]
Threw == [status |-> "threw", checked |-> 0, triggered |-> 0]

Running(c) == cycles[c].pc # "idle"

\* checkAlerts without `if (activeAlerts.length === 0) return ...`
AlertCheckTickNoEarlyReturn(c) ==
    /\ alertTimerDue
    /\ ~Running(c)
    /\ \A d \in CycleIds : d < c => Running(d)
    /\ alertTimerDue' = FALSE
    /\ cycles' = [cycles EXCEPT ![c] =
           [pc |-> "getMultiple", activeAlerts |-> FindEligible(now),
            marketDataMap |-> <<>>, idx |-> 1, triggeredCount |-> 0,
            result |-> NoResult]]
    /\ UNCHANGED <<now, marketTimerDue, alerts, nextId, mdStore, dispatched,
                   triggerEvents,
                   serviceVars>>

\* the setInterval callback of alertCheckInterval starts checkAlerts, which
\* runs its eligibility query
AlertCheckTick(c) ==
    /\ alertTimerDue
    /\ ~Running(c)
    /\ \A d \in CycleIds : d < c => Running(d)
    /\ alertTimerDue' = FALSE
    /\ LET activeAlerts == FindEligible(now) IN
       cycles' = [cycles EXCEPT ![c] =
           IF Len(activeAlerts) = 0
           THEN IdleCycle(Returned(0, 0))
           ELSE [pc |-> "getMultiple", activeAlerts |-> activeAlerts,
                 marketDataMap |-> <<>>, idx |-> 1, triggeredCount |-> 0,
                 result |-> NoResult]]
    /\ UNCHANGED <<now, marketTimerDue, alerts, nextId, mdStore, dispatched,
                   triggerEvents,
                   serviceVars>>

\* const marketDataList = await MarketData.getMultiple(symbols)
CycleGetMarketData(c) ==
    /\ cycles[c].pc = "getMultiple"
    /\ LET cy == cycles[c]
           symbols == {cy.activeAlerts[k].doc.symbol :
                          k \in 1..Len(cy.activeAlerts)}
       IN cycles' = [cycles EXCEPT
              ![c].marketDataMap = MarketDataMap(getMultiple(symbols)),
              ![c].pc = "loop"]
    /\ UNCHANGED <<now, alertTimerDue, marketTimerDue, alerts, nextId,
                   mdStore, dispatched, triggerEvents,
                   serviceVars>>

\* the alert the loop of cycle c is at
CurrentEntry(c) == cycles[c].activeAlerts[cycles[c].idx]

\* `continue`: no market data for the symbol, or an alertType the switch
\* does not know
Skips(c) ==
    \/ CurrentEntry(c).doc.symbol \notin DOMAIN cycles[c].marketDataMap
    \/ ~KnownAlertType(CurrentEntry(c).doc.alertType)

\* the in-memory document after the loop body has assigned its fields
Evaluated(alert, marketData, t) ==
    LET currentValue == ObservedValue(alert.alertType, marketData) IN
    IF ShouldTrigger(alert.condition, currentValue, alert.targetValue)
    THEN [alert EXCEPT !.isTriggered = TRUE, !.triggeredAt = t,
                       !.currentValue = currentValue]
    ELSE [alert EXCEPT !.currentValue = currentValue]

\* one iteration of `for (const alert of activeAlerts)` up to and including
\* `await alert.save()`
CycleCheckAlert(c) ==
    /\ cycles[c].pc = "loop"
    /\ cycles[c].idx <= Len(cycles[c].activeAlerts)
    /\ LET cy == cycles[c]
           id == CurrentEntry(c).id
           alert == CurrentEntry(c).doc
       IN
       IF Skips(c)
       THEN /\ cycles' = [cycles EXCEPT ![c].idx = @ + 1]
            /\ UNCHANGED <<alerts, triggerEvents>>
       ELSE LET local == Evaluated(alert, cy.marketDataMap[alert.symbol], now)
            IN
            IF id \notin DOMAIN alerts
            THEN \* save() finds no document: DocumentNotFoundError, which
                 \* checkAlerts logs and rethrows
                 /\ cycles' = [cycles EXCEPT ![c] = IdleCycle(Threw)]
                 /\ UNCHANGED <<alerts, triggerEvents>>
            ELSE /\ alerts' = [alerts EXCEPT
                                  ![id] = SaveDelta(@, alert, local)]
                 /\ triggerEvents' = [triggerEvents EXCEPT ![id] =
                        IF ~alerts[id].isTriggered /\ local.isTriggered
                        THEN @ + 1 ELSE @]
                 /\ cycles' = [cycles EXCEPT
                        ![c].activeAlerts[cy.idx].doc = local,
                        ![c].pc = IF local.isTriggered THEN "notify"
                                  ELSE "loop",
                        ![c].idx = IF local.isTriggered THEN @ ELSE @ + 1]
    /\ UNCHANGED <<now, alertTimerDue, marketTimerDue, nextId, mdStore,
                   dispatched,
                   serviceVars>>

\* the loop moves on after a triggered alert: triggeredCount++
NextAlert(c) ==
    [cycles EXCEPT ![c].pc = "loop", ![c].idx = @ + 1,
                   ![c].triggeredCount = @ + 1]

\* await this.sendAlertNotification(alert): User.findById, then the email
\* branch if a transporter is configured and the user wants email
sendAlertNotification(c) ==
    /\ cycles[c].pc = "notify"
    /\ dispatched' = [dispatched EXCEPT ![CurrentEntry(c).id] = @ + 1]
    /\ \E email \in BOOLEAN :
          cycles' = IF email THEN [cycles EXCEPT ![c].pc = "sendMail"]
                    ELSE NextAlert(c)
    /\ UNCHANGED <<now, alertTimerDue, marketTimerDue, alerts, nextId,
                   mdStore, triggerEvents,
                   serviceVars>>

\* sendEmailNotification without its try/catch: a rejected sendMail ends the
\* invocation of checkAlerts
sendEmailNotificationUncaught(c) ==
    /\ cycles[c].pc = "sendMail"
    /\ \E sent \in BOOLEAN :
          cycles' = IF sent THEN [cycles EXCEPT ![c].pc = "markSent"]
                    ELSE [cycles EXCEPT ![c] = IdleCycle(Threw)]
    /\ UNCHANGED <<now, alertTimerDue, marketTimerDue, alerts, nextId,
                   mdStore, dispatched, triggerEvents,
                   serviceVars>>

\* await this.emailTransporter.sendMail(...): it resolves, or it rejects and
\* sendEmailNotification logs the error
sendEmailNotification(c) ==
    /\ cycles[c].pc = "sendMail"
    /\ \E sent \in BOOLEAN :
          cycles' = IF sent THEN [cycles EXCEPT ![c].pc = "markSent"]
                    ELSE NextAlert(c)
    /\ UNCHANGED <<now, alertTimerDue, marketTimerDue, alerts, nextId,
                   mdStore, dispatched, triggerEvents,
                   serviceVars>>

\* alert.notificationSent = true; await alert.save() (a failing save is
\* caught and logged by sendEmailNotification)
markNotificationSent(c) ==
    /\ cycles[c].pc = "markSent"
    /\ LET id == CurrentEntry(c).id
           alert == CurrentEntry(c).doc
           local == [alert EXCEPT !.notificationSent = TRUE]
       IN alerts' = IF id \in DOMAIN alerts
                    THEN [alerts EXCEPT ![id] = SaveDelta(@, alert, local)]
                    ELSE alerts
    /\ cycles' = NextAlert(c)
    /\ UNCHANGED <<now, alertTimerDue, marketTimerDue, nextId, mdStore,
                   dispatched, triggerEvents,
                   serviceVars>>

\* return { checked: activeAlerts.length, triggered: triggeredCount }
CycleReturn(c) ==
    /\ cycles[c].pc = "loop"
    /\ cycles[c].idx > Len(cycles[c].activeAlerts)
    /\ cycles' = [cycles EXCEPT ![c] =
           IdleCycle(Returned(Len(cycles[c].activeAlerts),
                              cycles[c].triggeredCount))]
    /\ UNCHANGED <<now, alertTimerDue, marketTimerDue, alerts, nextId,
                   mdStore, dispatched, triggerEvents,
                   serviceVars>>

\* The loop of checkAlerts run to its end on the entries in the given order,
\* with nothing else touching the alerts meanwhile: store is the Alert
\* collection, mail the outcome of the notification of each alert ("none":
\* no email wanted, "sent", "failed").  The outcome: the collection, the
\* alerts sendAlertNotification was called for, and how the invocation
\* ended.
RECURSIVE RunLoop(_, _, _, _, _, _, _, _)
RunLoop(entries, checked, marketDataMap, t, mail, store, notified, triggeredCount) ==
    IF entries = <<>>
    THEN [alerts |-> store, notified |-> notified,
          result |-> Returned(checked, triggeredCount)]
    ELSE LET id == Head(entries).id
             alert == Head(entries).doc
         IN
         IF \/ alert.symbol \notin DOMAIN marketDataMap
            \/ ~KnownAlertType(alert.alertType)
         THEN RunLoop(Tail(entries), checked, marketDataMap, t, mail, store,
                      notified, triggeredCount)
         ELSE LET local == Evaluated(alert, marketDataMap[alert.symbol], t)
                  sent == [local EXCEPT !.notificationSent = TRUE]
              IN
              IF id \notin DOMAIN store
              THEN [alerts |-> store, notified |-> notified, result |-> Threw]
              ELSE IF ~local.isTriggered
              THEN RunLoop(Tail(entries), checked, marketDataMap, t, mail,
                           [store EXCEPT ![id] = SaveDelta(@, alert, local)],
                           notified, triggeredCount)
              ELSE RunLoop(Tail(entries), checked, marketDataMap, t, mail,
                           [store EXCEPT ![id] =
                               IF mail[id] = "sent"
                               THEN SaveDelta(SaveDelta(@, alert, local),
                                              local, sent)
                               ELSE SaveDelta(@, alert, local)],
                           notified \cup {id}, triggeredCount + 1)

\* checkAlerts from the loop on, for the entries in the given order
RunCycle(entries, marketDataMap, t, mail, store) ==
    RunLoop(entries, Len(entries), marketDataMap, t, mail, store, {}, 0)

----------------------------------------------------------------------------
(* The clock and the interval timers of startPeriodicUpdates *)

\* the clock moves on by step ms; an interval timer whose period ends in
\* that time has its callback queued
AdvanceTime(step) ==
    /\ now < MaxTime
    /\ now' = now + step
    /\ marketTimerDue' =
          (marketTimerDue
             \/ now' \div marketDataIntervalMs > now \div marketDataIntervalMs)
    /\ alertTimerDue' =
          (alertTimerDue
             \/ now' \div alertCheckIntervalMs > now \div alertCheckIntervalMs)
    /\ UNCHANGED <<alertVars, mdStore, serviceVars>>

----------------------------------------------------------------------------
Init ==
    /\ now = 0
    /\ alertTimerDue = FALSE
    /\ marketTimerDue = FALSE
    /\ alerts = <<>>
    /\ nextId = 1
    /\ cycles = [c \in CycleIds |-> IdleCycle(NoResult)]
    /\ mdStore = {}
    /\ dispatched = [i \in AlertIds |-> 0]
    /\ triggerEvents = [i \in AlertIds |-> 0]
    /\ cache = <<>>
    /\ yahoo = [y \in YahooSymbols |-> {InitialSnapshot}]
    /\ alpha = [s \in InputSymbols |-> {}]
    /\ sockets = <<>>
    /\ connectedUsers = <<>>
    /\ emitted = {}
    /\ alertEvents = {}
    /\ broadcastSet = {}
    /\ lastCall = NoCall
    /\ batch = NoBatch

\* Spec: the alert engine working on one alert of user u1 on NIFTY, with
\* every AlertService operation, the store's market data written by the
\* market-data service, and invocations of checkAlerts that may overlap
EngineAlerts == 1
EngineUsers == {"u1"}
EngineSymbols == {"NIFTY"}
EngineUpdates ==
    {[isTriggered |-> FALSE]} \cup {[expiresAt |-> e] : e \in ExpiryInputs}

Next ==
    \/ /\ nextId <= EngineAlerts
       /\ \E u \in EngineUsers, s \in EngineSymbols, cond \in Conditions,
             t \in Targets : createPriceAlert(u, s, cond, t)
    \/ /\ nextId <= EngineAlerts
       /\ \E u \in EngineUsers, s \in EngineSymbols, cond \in Conditions,
             t \in Targets : createVolumeAlert(u, s, cond, t)
    \/ /\ nextId <= EngineAlerts
       /\ \E u \in EngineUsers, s \in EngineSymbols, cond \in Conditions,
             t \in Targets : createChangePercentAlert(u, s, cond, t)
    \/ \E a \in AlertIds, u \in Users, updates \in EngineUpdates :
          updateAlert(a, u, updates)
    \/ \E a \in AlertIds, u \in Users : deleteAlert(a, u)
    \/ cleanupExpiredAlerts
    \/ \E a \in AlertIds : TTLIndexDelete(a)
    \/ \E s \in EngineSymbols, meta \in YahooSnapshots :
          saveMarketData(s, meta)
    \/ \E c \in CycleIds : AlertCheckTick(c)
    \/ \E c \in CycleIds : CycleGetMarketData(c)
    \/ \E c \in CycleIds : CycleCheckAlert(c)
    \/ \E c \in CycleIds : sendAlertNotification(c)
    \/ \E c \in CycleIds : sendEmailNotification(c)
    \/ \E c \in CycleIds : markNotificationSent(c)
    \/ \E c \in CycleIds : CycleReturn(c)
    \/ AdvanceTime(alertCheckIntervalMs)

Spec == Init /\ [][Next]_vars

\* SpecMarket: the market-data service serving single and batch requests
\* while the providers' answers change and the clock advances
MarketMaxTime == 60000
MarketSymbols == {"NIFTY", "TCS"}
MarketYahooAnswers == {{}, {InitialSnapshot}}
MarketAlphaAnswers == {{}} \cup {{q} : q \in AlphaSnapshots}
MarketBatches == {<<"NIFTY", "TCS">>}

NextMarket ==
    \/ \E s \in MarketSymbols, useCache \in BOOLEAN, readOk \in BOOLEAN,
          saveOk \in BOOLEAN : CallGetMarketData(s, useCache, readOk, saveOk)
    \/ \E symbols \in MarketBatches, readOk \in BOOLEAN, saveOk \in BOOLEAN :
          CallGetBatchMarketData(symbols, readOk, saveOk)
    \/ clearCache
    \/ \E s \in MarketSymbols, answer \in MarketYahooAnswers :
          YahooChanges(formatSymbolForYahoo(s), answer)
    \/ \E answer \in MarketAlphaAnswers : AlphaChanges("TCS", answer)
    \/ now < MarketMaxTime /\ AdvanceTime(marketDataIntervalMs)

SpecMarket == Init /\ [][NextMarket]_vars

\* SpecWS: connections of users and of anonymous clients subscribing and
\* unsubscribing, and the periodic market-data broadcast
WsMaxTime == 30000
WsIdentities == {Anonymous, "u1"}
WsSubscriptions == {<<"NIFTY">>, <<"tcs">>}
WsCategories == {<<"markets">>}

NextWS ==
    \/ \E k \in SocketIds, u \in WsIdentities : Connect(k, u)
    \/ \E k \in SocketIds, symbols \in WsSubscriptions :
          handleMarketDataSubscription(k, symbols, TRUE, TRUE)
    \/ \E k \in SocketIds, symbols \in WsSubscriptions :
          handleMarketDataUnsubscription(k, symbols)
    \/ \E k \in SocketIds : SubscribeUserRoom(k, "alerts")
    \/ \E k \in SocketIds, categories \in WsCategories :
          handleNewsSubscription(k, categories)
    \/ \E k \in SocketIds : handleDisconnection(k)
    \/ \E readOk \in BOOLEAN : MarketDataTick(readOk, TRUE)
    \/ now < WsMaxTime /\ AdvanceTime(marketDataIntervalMs)

SpecWS == Init /\ [][NextWS]_vars

\* SpecEquals: one price alert with condition equals and target 100.00,
\* evaluated on quotes that Alpha Vantage answers (prices are not rounded
\* there) and getMarketData stores
EqualsTargets == {100000}
EqualsQuotes ==
    {[price |-> p, changePercent |-> 0, volume |-> 5000] :
        p \in {99980, 99990, 99995, 100000, 100005, 100010, 100020}}

NextEquals ==
    \/ /\ nextId <= EngineAlerts
       /\ \E u \in EngineUsers, s \in EngineSymbols, t \in EqualsTargets :
             createPriceAlert(u, s, "equals", t)
    \/ \E s \in EngineSymbols : YahooChanges(formatSymbolForYahoo(s), {})
    \/ \E s \in EngineSymbols, q \in EqualsQuotes : AlphaChanges(s, {q})
    \/ \E s \in EngineSymbols : CallGetMarketData(s, FALSE, TRUE, TRUE)
    \/ \E c \in CycleIds : AlertCheckTick(c)
    \/ \E c \in CycleIds : CycleGetMarketData(c)
    \/ \E c \in CycleIds : CycleCheckAlert(c)
    \/ \E c \in CycleIds : sendAlertNotification(c)
    \/ \E c \in CycleIds : sendEmailNotification(c)
    \/ \E c \in CycleIds : markNotificationSent(c)
    \/ \E c \in CycleIds : CycleReturn(c)
    \/ AdvanceTime(alertCheckIntervalMs)

SpecEquals == Init /\ [][NextEquals]_vars

\* SpecSubscribe: connections subscribing to symbols while Yahoo Finance
\* stops and resumes answering for NIFTY
SnapshotSubscriptions == WsSubscriptions \cup {<<"NIFTY", "TCS">>}

NextSubscribe ==
    \/ \E k \in SocketIds, u \in WsIdentities : Connect(k, u)
    \/ \E k \in SocketIds, symbols \in SnapshotSubscriptions,
          readOk \in BOOLEAN :
          handleMarketDataSubscription(k, symbols, readOk, TRUE)
    \/ \E k \in SocketIds : handleDisconnection(k)
    \/ \E answer \in MarketYahooAnswers :
          YahooChanges(formatSymbolForYahoo("NIFTY"), answer)
    \/ now < WsMaxTime /\ AdvanceTime(marketDataIntervalMs)

SpecSubscribe == Init /\ [][NextSubscribe]_vars

\* SpecRooms: connections of two users and of anonymous clients joining
\* user, symbol and news rooms
RoomIdentities == {Anonymous} \cup Users
RoomSubscriptions == {<<"NIFTY">>}

NextRooms ==
    \/ \E k \in SocketIds, u \in RoomIdentities : Connect(k, u)
    \/ \E k \in SocketIds, symbols \in RoomSubscriptions :
          handleMarketDataSubscription(k, symbols, TRUE, TRUE)
    \/ \E k \in SocketIds : SubscribeUserRoom(k, "portfolio")
    \/ \E k \in SocketIds : SubscribeUserRoom(k, "alerts")
    \/ \E k \in SocketIds, categories \in WsCategories :
          handleNewsSubscription(k, categories)
    \/ \E k \in SocketIds : handleDisconnection(k)

SpecRooms == Init /\ [][NextRooms]_vars

\* SpecSweep: the expiry sweep working on two alerts of user u1, some of
\* them triggered, some expired, some deleted, while the clock advances
SweepUsers == {"u1"}
SweepSymbols == {"NIFTY"}
SweepUpdates ==
    {[isTriggered |-> TRUE]} \cup {[expiresAt |-> e] : e \in ExpiryInputs}

NextSweep ==
    \/ \E u \in SweepUsers, s \in SweepSymbols, t \in Targets :
          createPriceAlert(u, s, "above", t)
    \/ \E a \in AlertIds, u \in SweepUsers, updates \in SweepUpdates :
          updateAlert(a, u, updates)
    \/ \E a \in AlertIds, u \in SweepUsers : deleteAlert(a, u)
    \/ cleanupExpiredAlerts
    \/ AdvanceTime(alertCheckIntervalMs)

SpecSweep == Init /\ [][NextSweep]_vars

\* SpecOwner: two users creating, updating and deleting alerts, each call
\* made with the caller's userId and an update document of the caller's
\* choice
OwnerSymbols == Symbols
OwnerUpdates ==
    {[userId |-> u] : u \in Users}
      \cup {[isActive |-> TRUE]}
      \cup {[expiresAt |-> e] : e \in ExpiryInputs}

NextOwner ==
    \/ \E u \in Users, s \in OwnerSymbols, t \in Targets :
          createPriceAlert(u, s, "above", t)
    \/ \E a \in AlertIds, u \in Users, updates \in OwnerUpdates :
          updateAlert(a, u, updates)
    \/ \E a \in AlertIds, u \in Users : deleteAlert(a, u)

SpecOwner == Init /\ [][NextOwner]_vars

\* SpecLoop: one invocation of checkAlerts at a time working through two
\* alerts of user u1 on NIFTY, which gets quotes, and TCS, which gets none,
\* with an email transport that may take any time to
\* answer: every step of the loop is taken when it can be, the completion of
\* sendMail is not
LoopUsers == {"u1"}
LoopSymbols == {"NIFTY", "TCS"}
LoopQuoted == {"NIFTY"}
LoopConditions == {"above", "below"}

LoopStep ==
    \/ CycleGetMarketData(1)
    \/ CycleCheckAlert(1)
    \/ sendAlertNotification(1)
    \/ markNotificationSent(1)
    \/ CycleReturn(1)

NextLoop ==
    \/ \E u \in LoopUsers, s \in LoopSymbols, cond \in LoopConditions,
          t \in Targets : createPriceAlert(u, s, cond, t)
    \/ \E s \in LoopQuoted, meta \in YahooSnapshots : saveMarketData(s, meta)
    \/ AlertCheckTick(1)
    \/ LoopStep
    \/ sendEmailNotification(1)
    \/ AdvanceTime(alertCheckIntervalMs)

SpecLoop == Init /\ [][NextLoop]_vars /\ WF_vars(LoopStep)

\* SpecOrder: SpecLoop with alerts that get an expiresAt and are removed by
\* the TTL monitor, also while an invocation that loaded them is in progress
OrderUpdates == {[expiresAt |-> e] : e \in ExpiryInputs}

NextOrder ==
    \/ NextLoop
    \/ \E a \in AlertIds, u \in LoopUsers, updates \in OrderUpdates :
          updateAlert(a, u, updates)
    \/ \E a \in AlertIds : TTLIndexDelete(a)

SpecOrder == Init /\ [][NextOrder]_vars

\* SpecBatch: calls of getBatchMarketData for NIFTY and TCS with their
\* awaits as separate steps, while Yahoo's answers change and the clock
\* advances.  The call behind the second promise always comes to an end
\* (a provider answers or its request times out after 10 seconds); nothing
\* is assumed about the first, whose sources may be slow.
BatchSymbols == <<"NIFTY", "TCS">>

NextBatch ==
    \/ StartBatch(BatchSymbols)
    \/ \E k \in 1..Len(BatchSymbols), readOk \in BOOLEAN, saveOk \in BOOLEAN :
          SettlePromise(k, readOk, saveOk)
    \/ ResolveBatch
    \/ \E s \in MarketSymbols, answer \in MarketYahooAnswers :
          YahooChanges(formatSymbolForYahoo(s), answer)
    \/ now < MarketMaxTime /\ AdvanceTime(marketDataIntervalMs)

SpecBatch ==
    /\ Init
    /\ [][NextBatch]_vars
    /\ WF_vars(\E readOk \in BOOLEAN, saveOk \in BOOLEAN :
                  SettlePromise(2, readOk, saveOk))

\* SpecQuotes: one invocation of checkAlerts at a time on one alert, with a
\* MarketData collection that can hold more than one document of a symbol
NextQuotes ==
    \/ /\ nextId <= EngineAlerts
       /\ \E u \in EngineUsers, s \in EngineSymbols, cond \in LoopConditions,
             t \in Targets : createPriceAlert(u, s, cond, t)
    \/ \E s \in EngineSymbols, meta \in YahooSnapshots : saveMarketData(s, meta)
    \/ \E s \in EngineSymbols, meta1 \in YahooSnapshots,
          meta2 \in YahooSnapshots : saveMarketDataRace(s, meta1, meta2)
    \/ AlertCheckTick(1)
    \/ LoopStep
    \/ sendEmailNotification(1)
    \/ AdvanceTime(alertCheckIntervalMs)

SpecQuotes == Init /\ [][NextQuotes]_vars

\* SpecReach: alert creation, invocations of checkAlerts that can overlap,
\* expiry sweeps and deleteAlert, and nothing else that writes an alert
NextReach ==
    \/ /\ nextId <= EngineAlerts
       /\ \E u \in EngineUsers, s \in EngineSymbols, cond \in Conditions,
             t \in Targets : createPriceAlert(u, s, cond, t)
    \/ /\ nextId <= EngineAlerts
       /\ \E u \in EngineUsers, s \in EngineSymbols, cond \in Conditions,
             t \in Targets : createVolumeAlert(u, s, cond, t)
    \/ /\ nextId <= EngineAlerts
       /\ \E u \in EngineUsers, s \in EngineSymbols, cond \in Conditions,
             t \in Targets : createChangePercentAlert(u, s, cond, t)
    \/ \E a \in AlertIds, u \in EngineUsers : deleteAlert(a, u)
    \/ cleanupExpiredAlerts
    \/ \E s \in EngineSymbols, meta \in YahooSnapshots :
          saveMarketData(s, meta)
    \/ \E c \in CycleIds : AlertCheckTick(c)
    \/ \E c \in CycleIds : CycleGetMarketData(c)
    \/ \E c \in CycleIds : CycleCheckAlert(c)
    \/ \E c \in CycleIds : sendAlertNotification(c)
    \/ \E c \in CycleIds : sendEmailNotification(c)
    \/ \E c \in CycleIds : markNotificationSent(c)
    \/ \E c \in CycleIds : CycleReturn(c)
    \/ AdvanceTime(alertCheckIntervalMs)

SpecReach == Init /\ [][NextReach]_vars

\* SpecTypes: one invocation of checkAlerts at a time on alerts whose
\* alertType a client can set to 'technical'
TypeUpdates ==
    {[alertType |-> "technical"]} \cup {[expiresAt |-> e] : e \in ExpiryInputs}

NextTypes ==
    \/ NextLoop
    \/ \E a \in AlertIds, u \in LoopUsers, updates \in TypeUpdates :
          updateAlert(a, u, updates)

SpecTypes == Init /\ [][NextTypes]_vars

\* SpecServer: what the running server does with a user's alert by itself.
\* Its schedules are the two intervals of startPeriodicUpdates and the cron
\* tasks of startScheduledTasks, none of which calls cleanupExpiredAlerts;
\* MongoDB's TTL monitor runs in the background.  Time passes, a queued
\* timer callback runs, an invocation of checkAlerts goes on, and the TTL
\* monitor removes a document that is due.
ServerUpdates == {[expiresAt |-> e] : e \in ExpiryInputs}

CycleStep ==
    \E c \in CycleIds :
        \/ CycleGetMarketData(c)
        \/ CycleCheckAlert(c)
        \/ sendAlertNotification(c)
        \/ sendEmailNotification(c)
        \/ markNotificationSent(c)
        \/ CycleReturn(c)

NextServer ==
    \/ /\ nextId <= EngineAlerts
       /\ \E u \in EngineUsers, s \in EngineSymbols, t \in Targets :
             createPriceAlert(u, s, "above", t)
    \/ \E a \in AlertIds, u \in EngineUsers, updates \in ServerUpdates :
          updateAlert(a, u, updates)
    \/ \E s \in EngineSymbols, meta \in YahooSnapshots :
          saveMarketData(s, meta)
    \/ \E a \in AlertIds : TTLIndexDelete(a)
    \/ \E c \in CycleIds : AlertCheckTick(c)
    \/ CycleStep
    \/ AdvanceTime(alertCheckIntervalMs)

SpecServer ==
    /\ Init
    /\ [][NextServer]_vars
    /\ WF_vars(AdvanceTime(alertCheckIntervalMs))
    /\ WF_vars(\E c \in CycleIds : AlertCheckTick(c))
    /\ WF_vars(CycleStep)
    /\ WF_vars(\E a \in AlertIds : TTLIndexDelete(a))

----------------------------------------------------------------------------
(* Properties of the alert engine *)

RunningCycles == {c \in CycleIds : Running(c)}

\* the loop of cycle c is past entry k of its activeAlerts (its save is done)
Processed(c, k) ==
    /\ Running(c)
    /\ k \in 1..Len(cycles[c].activeAlerts)
    /\ \/ k < cycles[c].idx
       \/ k = cycles[c].idx
            /\ cycles[c].pc \in {"notify", "sendMail", "markSent"}

\* entry k of cycle c was evaluated, not skipped by a `continue`
WasEvaluated(c, k) ==
    /\ Processed(c, k)
    /\ cycles[c].activeAlerts[k].doc.symbol \in DOMAIN cycles[c].marketDataMap
    /\ KnownAlertType(cycles[c].activeAlerts[k].doc.alertType)

\* C1: at no time are two invocations of checkAlerts in progress: a tick of
\* alertCheckInterval that fires while a cycle is running starts no second
\* cycle.
C1_AtMostOneCycleRunning == Cardinality(RunningCycles) <= 1

\* C2: an alert never has more calls of sendAlertNotification than trigger
\* events (transitions of its stored isTriggered from false to true), under
\* any interleaving of cycles.
C2_OneDispatchPerTrigger ==
    \A a \in AlertIds : dispatched[a] <= triggerEvents[a]

\* C3: no step of the system takes a stored alert from isTriggered = true
\* back to isTriggered = false.
C3_TriggeredIsTerminal ==
    [][\A a \in DOMAIN alerts \cap DOMAIN alerts' :
          alerts[a].isTriggered => alerts'[a].isTriggered]_vars

\* C4: a step that sets isTriggered on a stored alert finds that alert
\* stored with isActive = true and with expiresAt unset or later than now.
C4_TriggeredOnlyWhileEligible ==
    [][\A a \in DOMAIN alerts \cap DOMAIN alerts' :
          (~alerts[a].isTriggered /\ alerts'[a].isTriggered)
             => /\ alerts[a].isActive
                /\ (alerts[a].expiresAt = NoDate \/ alerts[a].expiresAt > now)
      ]_vars

\* C6: an evaluated alert with condition above is triggered exactly when the
\* observed value is >= targetValue, and one with condition below exactly
\* when it is <= targetValue.
C6_AboveBelowInclusive ==
    \A c \in CycleIds : \A k \in 1..Len(cycles[c].activeAlerts) :
        LET doc == cycles[c].activeAlerts[k].doc IN
        WasEvaluated(c, k) =>
          /\ doc.condition = "above" =>
                (doc.isTriggered <=> doc.currentValue >= doc.targetValue)
          /\ doc.condition = "below" =>
                (doc.isTriggered <=> doc.currentValue <= doc.targetValue)

\* C7: an evaluated change_percent alert has the absolute value of the
\* quote's percent change as its currentValue.
C7_ChangePercentAbsolute ==
    \A c \in CycleIds : \A k \in 1..Len(cycles[c].activeAlerts) :
        LET doc == cycles[c].activeAlerts[k].doc IN
        (WasEvaluated(c, k) /\ doc.alertType = "change_percent") =>
            doc.currentValue =
                Abs(cycles[c].marketDataMap[doc.symbol].changePercent)

\* C8: when a cycle has looked up the market data of its eligible alerts, a
\* symbol of theirs is without market data only if the cache, the store and
\* both providers have no quote for it.
C8_SkippedOnlyWhenSourcesExhausted ==
    [][\A c \in CycleIds :
          (cycles[c].pc = "getMultiple" /\ cycles'[c].pc = "loop") =>
             \A k \in 1..Len(cycles[c].activeAlerts) :
                LET symbol == cycles[c].activeAlerts[k].doc.symbol IN
                symbol \notin DOMAIN cycles'[c].marketDataMap =>
                   /\ symbol \notin DOMAIN cache
                   /\ getLatest(mdStore, symbol) = {}
                   /\ fetchFromExternalAPI(symbol, now) = {}
      ]_vars

\* C9: once a cycle is past an alert it triggered, an alert_triggered event
\* for that alert has been emitted to the room alerts_<userId> of the
\* alert's owner, and no alert_triggered event is in another user's room.
C9_TriggerIsPushedToOwner ==
    /\ \A c \in CycleIds : \A k \in 1..Len(cycles[c].activeAlerts) :
          LET entry == cycles[c].activeAlerts[k] IN
          (WasEvaluated(c, k) /\ entry.doc.isTriggered /\ k < cycles[c].idx)
             => [room |-> Room("alerts", entry.doc.userId),
                 alertId |-> entry.id] \in alertEvents
    /\ \A e \in alertEvents :
          e.alertId \in DOMAIN alerts
             => e.room = Room("alerts", alerts[e.alertId].userId)


\* C15: no invocation of checkAlerts ends by throwing because the save of
\* one alert failed: a cycle that has started ends by returning its
\* {checked, triggered} result.
C15_SaveFailureDoesNotAbortCycle ==
    \A c \in CycleIds : cycles[c].result.status # "threw"

\* the step is cycle c leaving its notification without an email sent: the
\* user lookup failed or found no user to mail, or sendMail rejected
NotificationFailed(c) ==
    /\ cycles'[c] # cycles[c]
    /\ \/ cycles[c].pc = "notify" /\ cycles'[c].pc # "sendMail"
       \/ cycles[c].pc = "sendMail" /\ cycles'[c].pc # "markSent"

\* C16: a step in which the notification of a triggered alert fails changes
\* no stored alert (the trigger is not rolled back, notificationSent is not
\* set), does not end the cycle, and takes the cycle on to the next alert
\* with the alert counted as triggered.
C16_NotificationFailureIsIsolated ==
    [][\A c \in CycleIds :
          NotificationFailed(c) =>
             /\ alerts' = alerts
             /\ cycles'[c].activeAlerts = cycles[c].activeAlerts
             /\ cycles'[c].pc = "loop"
             /\ cycles'[c].idx = cycles[c].idx + 1
             /\ cycles'[c].triggeredCount = cycles[c].triggeredCount + 1
             /\ cycles'[c].result = NoResult
      ]_vars

\* a cycle has gone on past an alert it triggered whose notification was not
\* sent: the alert is stored triggered, with notificationSent false
C16_Witness ==
    \E c \in CycleIds :
        /\ cycles[c].pc = "loop"
        /\ cycles[c].idx = 2
        /\ cycles[c].triggeredCount = 1
        /\ LET id == cycles[c].activeAlerts[1].id IN
           /\ id \in DOMAIN alerts
           /\ alerts[id].isTriggered
           /\ alerts[id].triggeredAt # NoDate
           /\ ~alerts[id].notificationSent
           /\ dispatched[id] = 1

\* the alerts the cycles in progress have loaded
LoadedBy(c) ==
    {cycles[c].activeAlerts[k].id : k \in 1..Len(cycles[c].activeAlerts)}

\* C17: a cycle that starts when an alert is stored with isTriggered = true
\* does not load that alert, and a step of a cycle changes the fields and
\* the notification count only of alerts that cycle has loaded: cycles run
\* after the trigger leave the alert as it is and dispatch nothing for it.
C17_CyclesAfterTriggerChangeNothing ==
    [][\A c \in CycleIds :
          /\ (~Running(c) /\ cycles'[c] # cycles[c]) =>
                \A a \in DOMAIN alerts :
                   alerts[a].isTriggered =>
                      /\ a \notin LoadedBy(c)'
                      /\ alerts'[a] = alerts[a]
                      /\ dispatched'[a] = dispatched[a]
          /\ (Running(c) /\ cycles'[c] # cycles[c]) =>
                \A a \in DOMAIN alerts :
                   a \notin LoadedBy(c) =>
                      /\ alerts'[a] = alerts[a]
                      /\ dispatched'[a] = dispatched[a]
      ]_vars

\* the alert is stored triggered, active and unexpired, it was dispatched
\* once, and the latest cycle, started after the trigger, found nothing to
\* check and has returned
C17_Witness ==
    /\ \A c \in CycleIds : ~Running(c)
    /\ cycles[1].result = Returned(0, 0)
    /\ \E a \in DOMAIN alerts :
          /\ alerts[a].isTriggered
          /\ alerts[a].isActive
          /\ alerts[a].expiresAt = NoDate
          /\ triggerEvents[a] = 1
          /\ dispatched[a] = 1

\* C18: an evaluated alert with condition equals is triggered exactly when
\* the observed value differs from targetValue by less than 0.01: with
\* target 100.00 it is triggered at 100.005 and not at 100.01 or 100.02.
C18_EqualsWithinEpsilon ==
    \A c \in CycleIds : \A k \in 1..Len(cycles[c].activeAlerts) :
        LET doc == cycles[c].activeAlerts[k].doc IN
        (WasEvaluated(c, k) /\ doc.condition = "equals") =>
            /\ doc.isTriggered <=>
                  Abs(doc.currentValue - doc.targetValue) < 10
            /\ (doc.targetValue = 100000 /\ doc.currentValue = 100005)
                  => doc.isTriggered
            /\ (doc.targetValue = 100000
                  /\ doc.currentValue \in {100010, 100020})
                  => ~doc.isTriggered

\* an equals alert with target 100.00 was evaluated at 100.005 and is stored
\* triggered with that value
C18_Witness ==
    \E c \in CycleIds : \E k \in 1..Len(cycles[c].activeAlerts) :
        LET entry == cycles[c].activeAlerts[k] IN
        /\ WasEvaluated(c, k)
        /\ entry.doc.condition = "equals"
        /\ entry.doc.targetValue = 100000
        /\ entry.doc.currentValue = 100005
        /\ entry.id \in DOMAIN alerts
        /\ alerts[entry.id].isTriggered
        /\ alerts[entry.id].currentValue = 100005

\* C21: a tick of alertCheckInterval that finds no eligible alert starts no
\* work: the invocation has returned {checked: 0, triggered: 0}, no
\* invocation has gone on to read market data, and no alert, notification
\* count, collection or cache has changed.
C21_NoEligibleAlertsNoWork ==
    [][(alertTimerDue /\ ~alertTimerDue' /\ Len(FindEligible(now)) = 0) =>
          /\ \A c \in CycleIds : Running(c)' <=> Running(c)
          /\ \A c \in CycleIds : Running(c) => cycles'[c] = cycles[c]
          /\ \E c \in CycleIds :
                ~Running(c) /\ cycles'[c] = IdleCycle(Returned(0, 0))
          /\ alerts' = alerts
          /\ dispatched' = dispatched
          /\ triggerEvents' = triggerEvents
          /\ mdStore' = mdStore
          /\ cache' = cache
      ]_vars

\* an invocation has returned {checked: 0, triggered: 0} at a tick although
\* an alert is stored, which is not eligible
C21_Witness ==
    /\ now >= alertCheckIntervalMs
    /\ ~alertTimerDue
    /\ \A c \in CycleIds : ~Running(c)
    /\ cycles[1].result = Returned(0, 0)
    /\ \E a \in DOMAIN alerts : ~Eligible(alerts[a], now)

\* C25: a call of cleanupExpiredAlerts sets isActive = false on exactly the
\* alerts that are active with expiresAt earlier than now, triggered or not;
\* it changes no other field and no other alert, removes and adds none, and
\* returns the number of alerts it deactivated.
C25_SweepDeactivatesExactlyExpired ==
    [][cleanupExpiredAlerts =>
         /\ DOMAIN alerts' = DOMAIN alerts
         /\ \A a \in DOMAIN alerts :
               LET due == /\ alerts[a].expiresAt # NoDate
                          /\ alerts[a].expiresAt < now
                          /\ alerts[a].isActive
               IN  /\ due => alerts'[a] = [alerts[a] EXCEPT !.isActive = FALSE]
                   /\ ~due => alerts'[a] = alerts[a]
         /\ lastCall'.data =
               {Cardinality({a \in DOMAIN alerts :
                               alerts[a].isActive /\ ~alerts'[a].isActive})}
    ]_vars

\* a sweep has just deactivated one alert, which is triggered, and left an
\* active alert that is not due
C25_Witness ==
    /\ lastCall.op = "cleanupExpiredAlerts"
    /\ lastCall.data = {1}
    /\ \E a, b \in DOMAIN alerts :
          /\ alerts[a].expiresAt # NoDate /\ alerts[a].expiresAt < now
          /\ ~alerts[a].isActive /\ alerts[a].isTriggered
          /\ alerts[b].isActive /\ alerts[b].expiresAt = NoDate

\* C26: an alert record is never removed from the store: every alert that
\* was created stays present after any operation and any passage of time.
C26_AlertsAreNeverRemoved ==
    [][DOMAIN alerts \subseteq DOMAIN alerts']_vars

\* the latest sweep deactivated the alert (Spec has one alert, and there
\* only cleanupExpiredAlerts sets lastCall)
SweptBySweep ==
    lastCall.op = "cleanupExpiredAlerts" /\ lastCall.data = {1}

\* C27: once the expiry sweep has deactivated an alert, no step makes it
\* eligible for evaluation again, and no step of an evaluation cycle, one
\* that was running when the sweep ran included, triggers it or changes its
\* currentValue.
C27_ExpiredIsTerminal ==
    [][\A a \in DOMAIN alerts \cap DOMAIN alerts' :
          (SweptBySweep /\ SweptBySweep') =>
             /\ ~Eligible(alerts'[a], now')
             /\ alerts'[a].isTriggered => alerts[a].isTriggered
             /\ alerts'[a].currentValue = alerts[a].currentValue
      ]_vars

\* C28: a call of updateAlert or deleteAlert that changes an alert is made
\* with the userId the alert is stored with, it changes no other alert, and
\* it leaves the alert's userId as it was.
C28_OnlyOwnerChangesAndOwnerStays ==
    [][\A a \in AlertIds, u \in Users :
          ((\E updates \in OwnerUpdates : updateAlert(a, u, updates))
              \/ deleteAlert(a, u))
            => /\ alerts[a].userId = u
               /\ alerts'[a].userId = alerts[a].userId
               /\ \A b \in DOMAIN alerts \ {a} : alerts'[b] = alerts[b]
      ]_vars

\* C24: an alert that is stored active with its expiresAt passed is
\* eventually stored with isActive = false, by what the running server does
\* on its own.
C24_ExpiredEventuallyDeactivated ==
    \A a \in AlertIds :
        (a \in DOMAIN alerts /\ ExpiredActive(alerts[a], now))
            ~> (a \in DOMAIN alerts /\ ~alerts[a].isActive)

\* cycle c takes a step of its loop body on the alert it is at, which it
\* does not skip
EvaluationStep(c) ==
    /\ cycles[c].pc = "loop"
    /\ cycles[c].idx <= Len(cycles[c].activeAlerts)
    /\ cycles'[c] # cycles[c]
    /\ ~Skips(c)

\* the value the loop body of cycle c observes for the alert it is at
Observed(c) ==
    ObservedValue(CurrentEntry(c).doc.alertType,
                  cycles[c].marketDataMap[CurrentEntry(c).doc.symbol])

\* the condition of the alert cycle c is at holds for the observed value
ConditionMet(c) ==
    ShouldTrigger(CurrentEntry(c).doc.condition, Observed(c),
                  CurrentEntry(c).doc.targetValue)

\* C31: a step of an evaluation cycle changes of a stored alert at most
\* currentValue, isTriggered, triggeredAt and notificationSent; and a step
\* that evaluates a stored alert whose condition is not met leaves the alert
\* stored with currentValue = the observed value and everything else as it
\* was, and dispatches no notification.
C31_CycleWritesOnlyItsFields ==
    [][\A c \in CycleIds :
          /\ cycles'[c] # cycles[c] =>
                /\ DOMAIN alerts' = DOMAIN alerts
                /\ \A a \in DOMAIN alerts :
                      alerts'[a] =
                         [alerts[a] EXCEPT
                             !.currentValue = alerts'[a].currentValue,
                             !.isTriggered = alerts'[a].isTriggered,
                             !.triggeredAt = alerts'[a].triggeredAt,
                             !.notificationSent = alerts'[a].notificationSent]
          /\ (EvaluationStep(c) /\ ~ConditionMet(c)
                 /\ CurrentEntry(c).id \in DOMAIN alerts) =>
                LET a == CurrentEntry(c).id IN
                /\ alerts'[a] = [alerts[a] EXCEPT !.currentValue = Observed(c)]
                /\ \A b \in DOMAIN alerts \ {a} : alerts'[b] = alerts[b]
                /\ dispatched' = dispatched
                /\ triggerEvents' = triggerEvents
                /\ cycles'[c].pc = "loop"
      ]_vars

\* entry k of the invocation is an alert that is still to be evaluated, has
\* market data and meets its condition
AwaitsTrigger(c, k) ==
    /\ cycles[c].idx < k
    /\ k <= Len(cycles[c].activeAlerts)
    /\ LET doc == cycles[c].activeAlerts[k].doc IN
       /\ doc.symbol \in DOMAIN cycles[c].marketDataMap
       /\ KnownAlertType(doc.alertType)
       /\ ShouldTrigger(doc.condition,
                        ObservedValue(doc.alertType,
                                      cycles[c].marketDataMap[doc.symbol]),
                        doc.targetValue)

\* C32: while the email of an earlier alert is being sent, however long the
\* transport takes, a later alert of the same cycle whose condition is met
\* gets its transition persisted.
C32_LoopDoesNotWaitForEmail ==
    \A a \in AlertIds, k \in 1..MaxAlerts :
        (/\ cycles[1].pc = "sendMail"
         /\ AwaitsTrigger(1, k)
         /\ cycles[1].activeAlerts[k].id = a)
            ~> (a \in DOMAIN alerts /\ alerts[a].isTriggered)

\* cycle c takes the step of its loop on an alert whose symbol has no entry
\* in the cycle's marketDataMap
MissingQuoteStep(c) ==
    /\ cycles[c].pc = "loop"
    /\ cycles[c].idx <= Len(cycles[c].activeAlerts)
    /\ cycles'[c] # cycles[c]
    /\ CurrentEntry(c).doc.symbol \notin DOMAIN cycles[c].marketDataMap

\* C35: the step of a cycle on an alert whose symbol has no quote in the
\* cycle's market data changes no stored alert, dispatches nothing, raises
\* no error and moves the loop on; and a cycle that starts loads exactly the
\* alerts that are stored active, not triggered and not expired, so an alert
\* left like that is looked at again.
C35_MissingQuoteLeavesAlertPending ==
    [][\A c \in CycleIds :
          /\ MissingQuoteStep(c) =>
                /\ alerts' = alerts
                /\ dispatched' = dispatched
                /\ triggerEvents' = triggerEvents
                /\ cycles'[c] = [cycles[c] EXCEPT !.idx = @ + 1]
          /\ (~Running(c) /\ cycles'[c] # cycles[c]) =>
                LoadedBy(c)' =
                  {a \in DOMAIN alerts :
                      /\ alerts[a].isActive
                      /\ ~alerts[a].isTriggered
                      /\ \/ alerts[a].expiresAt = NoDate
                         \/ alerts[a].expiresAt > now}
      ]_vars

\* a cycle that has quotes for another symbol has gone past an alert on a
\* symbol without a quote: the alert is stored as it was created, eligible,
\* and nothing was dispatched for it
C35_Witness ==
    /\ cycles[1].pc = "loop"
    /\ \E k \in 1..Len(cycles[1].activeAlerts) :
          LET entry == cycles[1].activeAlerts[k] IN
          /\ k < cycles[1].idx
          /\ entry.doc.symbol \notin DOMAIN cycles[1].marketDataMap
          /\ cycles[1].marketDataMap # <<>>
          /\ alerts[entry.id] = entry.doc
          /\ entry.doc.currentValue = 0
          /\ Eligible(alerts[entry.id], now)
          /\ dispatched[entry.id] = 0

\* the entries in the opposite order
Reverse(entries) ==
    [k \in 1..Len(entries) |-> entries[Len(entries) + 1 - k]]

MailOutcomes == [AlertIds -> {"none", "sent", "failed"}]

\* C36: when an invocation of checkAlerts is about to enter its loop, running
\* the loop on its alerts in the order found and in the opposite order (all
\* the orders of two alerts) gives the same stored alerts, the same set of
\* notified alerts and the same result, whatever the outcome of each
\* notification and also when a save fails.
C36_OrderOfAlertsDoesNotMatter ==
    \A c \in CycleIds :
        (cycles[c].pc = "loop" /\ cycles[c].idx = 1) =>
            \A mail \in MailOutcomes :
                RunCycle(cycles[c].activeAlerts, cycles[c].marketDataMap,
                         now, mail, alerts)
                  = RunCycle(Reverse(cycles[c].activeAlerts),
                             cycles[c].marketDataMap, now, mail, alerts)

\* C38: when a cycle has read the market data of its alerts' symbols, the
\* quote it holds for a symbol is the one of the symbol's most recently
\* updated document in the collection.
C38_CycleUsesNewestRecord ==
    [][\A c \in CycleIds :
          (cycles[c].pc = "getMultiple" /\ cycles'[c].pc = "loop") =>
             \A d \in mdStore :
                (/\ d.symbol \in DOMAIN cycles'[c].marketDataMap
                 /\ \A e \in mdStore \ {d} :
                       e.symbol = d.symbol => e.lastUpdated < d.lastUpdated)
                  => cycles'[c].marketDataMap[d.symbol] =
                        [price |-> d.price, volume |-> d.volume,
                         changePercent |-> d.changePercent]
      ]_vars

\* C39: a stored alert with notificationSent = true has isTriggered = true,
\* and a stored alert with isTriggered = true has triggeredAt set and a
\* currentValue that satisfies its condition against its targetValue.
C39_TriggeredAlertIsConsistent ==
    \A a \in DOMAIN alerts :
       /\ alerts[a].notificationSent => alerts[a].isTriggered
       /\ alerts[a].isTriggered =>
             /\ alerts[a].triggeredAt # NoDate
             /\ ShouldTrigger(alerts[a].condition, alerts[a].currentValue,
                              alerts[a].targetValue)

\* the loop of cycle c is at an alert it loaded with an alertType that the
\* switch has no case for
UnknownTypeStep(c) ==
    /\ cycles[c].pc = "loop"
    /\ cycles[c].idx <= Len(cycles[c].activeAlerts)
    /\ cycles'[c] # cycles[c]
    /\ ~KnownAlertType(CurrentEntry(c).doc.alertType)

\* C40: no step of an evaluation cycle changes isTriggered or currentValue
\* of a stored active alert whose alertType is not price, volume or
\* change_percent; the loop skips an alert it loaded with such a type
\* (nothing stored changes, nothing is dispatched, nothing is counted as
\* triggered, the loop goes to the next alert), the cycle counts every alert
\* it loaded in checked, and a cycle that starts loads the alert as long as
\* it is active, untriggered and unexpired.
C40_UnknownTypeIsSkipped ==
    [][\A c \in CycleIds :
          /\ cycles'[c] # cycles[c] =>
                \A a \in DOMAIN alerts :
                   (alerts[a].isActive
                      /\ ~KnownAlertType(alerts[a].alertType)) =>
                      /\ a \in DOMAIN alerts'
                      /\ alerts'[a].isTriggered = alerts[a].isTriggered
                      /\ alerts'[a].currentValue = alerts[a].currentValue
          /\ UnknownTypeStep(c) =>
                /\ alerts' = alerts
                /\ dispatched' = dispatched
                /\ triggerEvents' = triggerEvents
                /\ cycles'[c] = [cycles[c] EXCEPT !.idx = @ + 1]
          /\ (cycles[c].pc = "idle" /\ cycles'[c].pc = "getMultiple") =>
                \A a \in DOMAIN alerts :
                   (~KnownAlertType(alerts[a].alertType)
                      /\ Eligible(alerts[a], now)) =>
                      \E k \in 1..Len(cycles'[c].activeAlerts) :
                         cycles'[c].activeAlerts[k].id = a
          /\ (cycles[c].pc = "loop" /\ cycles'[c].pc = "idle"
                /\ cycles'[c].result.status = "returned") =>
                cycles'[c].result.checked = Len(cycles[c].activeAlerts)
      ]_vars

----------------------------------------------------------------------------
(* Properties of the market-data service *)

\* C5: getBatchMarketData never rejects, and it resolves with an entry for
\* every requested symbol, whatever sources fail for some of the symbols.
C5_BatchIsolatesFailures ==
    lastCall.op = "getBatchMarketData" =>
        /\ lastCall.status = "resolved"
        /\ \A k \in 1..Len(lastCall.symbols) :
              \/ lastCall.symbols[k] \in DOMAIN lastCall.data
              \/ ToUpperCase(lastCall.symbols[k]) \in DOMAIN lastCall.data

\* the collection holds no record of the symbol younger than cacheTimeout
NoFreshRecord(symbol) ==
    \A d \in getLatest(mdStore, symbol) : ~(now - d.lastUpdated < cacheTimeout)

\* C12: a call of getMarketData for a symbol with an expired cache entry,
\* no record within the TTL in the collection (which answers the read) and
\* no quote from either provider returns the data of the expired cache
\* entry.
C12_StaleCacheOnTotalFailure ==
    [][\A symbol \in MarketSymbols, saveOk \in BOOLEAN :
          (/\ symbol \in DOMAIN cache
           /\ ~CacheHit(cache, symbol, now)
           /\ NoFreshRecord(symbol)
           /\ fetchFromExternalAPI(symbol, now) = {}
           /\ CallGetMarketData(symbol, TRUE, TRUE, saveOk))
             => /\ lastCall'.status = "data"
                /\ lastCall'.data = {cache[symbol].data}
      ]_vars

\* C29: a call of getMarketData that gets a quote from a provider returns
\* that quote and leaves it in the cache under the symbol with the time of
\* the call; when the collection takes the write, the collection then holds
\* exactly one document of the symbol, with the quote's values, and when the
\* write fails the collection is as it was and the call still returns and
\* caches the quote.
C29_FetchIsStoredAndCached ==
    [][\A symbol \in MarketSymbols, useCache \in BOOLEAN, saveOk \in BOOLEAN :
          (/\ ~(useCache /\ CacheHit(cache, symbol, now))
           /\ NoFreshRecord(symbol)
           /\ fetchFromExternalAPI(symbol, now) # {}
           /\ CallGetMarketData(symbol, useCache, TRUE, saveOk))
             => LET q == CHOOSE x \in fetchFromExternalAPI(symbol, now) : TRUE
                IN  /\ lastCall'.status = "data"
                    /\ lastCall'.data = {q}
                    /\ symbol \in DOMAIN cache'
                    /\ cache'[symbol] = [data |-> q, timestamp |-> now]
                    /\ saveOk =>
                          /\ {d \in mdStore' : d.symbol = q.symbol}
                                = {[symbol |-> q.symbol, price |-> q.price,
                                    changePercent |-> q.changePercent,
                                    volume |-> q.volume, source |-> q.source,
                                    lastUpdated |-> now]}
                          /\ {d \in mdStore' : d.symbol # q.symbol}
                                = {d \in mdStore : d.symbol # q.symbol}
                    /\ ~saveOk => mdStore' = mdStore
      ]_vars

\* a call has just returned a quote that is in the cache with the time of
\* the call while the collection holds no document of the symbol: the
\* write of the fetched quote failed
C29_Witness ==
    /\ lastCall.op = "getMarketData"
    /\ lastCall.status = "data"
    /\ \E symbol \in MarketSymbols :
          /\ lastCall.symbols = <<symbol>>
          /\ symbol \in DOMAIN cache
          /\ cache[symbol].timestamp = now
          /\ lastCall.data = {cache[symbol].data}
          /\ getLatest(mdStore, symbol) = {}

\* C30: a call getMarketData(symbol, true) made while the cache holds an
\* entry of the symbol younger than 60 seconds returns the data of that
\* entry, whether or not the collection would answer a read, and leaves
\* the cache (the entry's timestamp included) and the collection as they
\* were.
C30_CacheHitTouchesNothing ==
    [][\A symbol \in MarketSymbols, readOk \in BOOLEAN, saveOk \in BOOLEAN :
          (/\ symbol \in DOMAIN cache
           /\ now - cache[symbol].timestamp < 60000
           /\ CallGetMarketData(symbol, TRUE, readOk, saveOk))
             => /\ lastCall'.status = "data"
                /\ lastCall'.data = {cache[symbol].data}
                /\ cache' = cache
                /\ mdStore' = mdStore
      ]_vars

\* a call with useCache, made now, has returned the data of an entry that
\* was cached earlier and is younger than the timeout, at a time when
\* the collection has no document of the symbol and no provider has a quote
\* for it
C30_Witness ==
    /\ lastCall.op = "getMarketData"
    /\ lastCall.useCache
    /\ lastCall.status = "data"
    /\ \E symbol \in MarketSymbols :
          /\ lastCall.symbols = <<symbol>>
          /\ symbol \in DOMAIN cache
          /\ lastCall.at = now
          /\ cache[symbol].timestamp < now
          /\ now - cache[symbol].timestamp < cacheTimeout
          /\ lastCall.data = {cache[symbol].data}
          /\ getLatest(mdStore, symbol) = {}
          /\ fetchFromExternalAPI(symbol, now) = {}

\* C33: a quote that getMarketData returns from a cache entry younger than
\* the timeout, or from a record of the collection younger than the
\* timeout, carries the time of an upstream fetch less than 60 seconds
\* before the call.
C33_ReturnedQuoteYoungerThanTtl ==
    [][\A symbol \in MarketSymbols, useCache \in BOOLEAN, saveOk \in BOOLEAN :
          (/\ \/ useCache /\ CacheHit(cache, symbol, now)
              \/ ~NoFreshRecord(symbol)
           /\ CallGetMarketData(symbol, useCache, TRUE, saveOk))
             => \A q \in lastCall'.data : now - q.timestamp < 60000
      ]_vars

\* C34: whatever the providers answer, fetchFromExternalAPI calls Yahoo
\* first and Alpha Vantage only when Yahoo gave no quote, and it returns
\* the quote of the last provider it called (null when that one gave none):
\* Yahoo's quote when Yahoo has one, else Alpha Vantage's.
C34_FallbackChainStopsAtFirstSuccess ==
    \A symbol \in MarketSymbols :
        LET calls == ProviderCalls(symbol, now)
            result == fetchFromExternalAPI(symbol, now)
            yahooAnswer == yahoo[formatSymbolForYahoo(symbol)]
        IN  /\ calls[1] = "yahoo_finance"
            /\ Len(calls) = (IF yahooAnswer # {} THEN 1 ELSE 2)
            /\ Len(calls) = 2 => calls[2] = "alpha_vantage"
            /\ \A q \in result : q.source = calls[Len(calls)]
            /\ result = {} <=> (yahooAnswer = {} /\ alpha[symbol] = {})

\* Yahoo has no quote for a symbol, Alpha Vantage has one, and the latest
\* call of getMarketData, made now, returned the quote fetched from Alpha
\* Vantage
C34_Witness ==
    /\ lastCall.op = "getMarketData"
    /\ lastCall.at = now
    /\ \E symbol \in MarketSymbols :
          /\ lastCall.symbols = <<symbol>>
          /\ yahoo[formatSymbolForYahoo(symbol)] = {}
          /\ ProviderCalls(symbol, now) = <<"yahoo_finance", "alpha_vantage">>
          /\ lastCall.data = fetchFromExternalAPI(symbol, now)
          /\ \E q \in lastCall.data : q.source = "alpha_vantage"

\* C37: while a call of getBatchMarketData is in progress every requested
\* symbol has its promise, so its fetch was started before any was waited
\* for; a step that settles one promise, with a quote or with an error,
\* leaves the other promises as they were; and the second symbol's promise
\* settles in every behaviour, those in which the first symbol's stays
\* pending for ever included.
C37_BatchFetchesConcurrently ==
    /\ [](batch # NoBatch =>
            /\ Len(batch.promises) = Len(batch.symbols)
            /\ \A k \in 1..Len(batch.symbols) :
                  batch.promises[k].symbol = batch.symbols[k])
    /\ [][(batch # NoBatch /\ batch' # NoBatch) =>
            \A j, k \in DOMAIN batch.promises :
               (j # k /\ batch'.promises[k] # batch.promises[k])
                  => batch'.promises[j] = batch.promises[j]]_vars
    /\ (batch # NoBatch /\ batch.promises[2].outcome = Pending)
          ~> (batch # NoBatch /\ batch.promises[2].outcome # Pending)

\* the first symbol's promise is still pending while the second symbol's
\* has settled with a quote
C37_Witness ==
    /\ batch # NoBatch
    /\ batch.promises[1].outcome = Pending
    /\ batch.promises[2].outcome.kind = "data"

\* C13: a call of getMarketData ends with a quote or with an error: with no
\* cache entry, no record in the collection and no quote from either
\* provider it throws, and it never resolves with null in place of a quote.
C13_NotAvailableIsAnError ==
    lastCall.op = "getMarketData" =>
        /\ lastCall.status \in {"data", "throw"}
        /\ lastCall.status = "data" => lastCall.data # {}

----------------------------------------------------------------------------
(* Properties of the broadcast layer *)

\* C10: the symbols a tick of marketDataInterval collects for its batch
\* fetch are those of the rooms market_<SYMBOL> that have a member at the
\* tick, whether the members are authenticated or not.
C10_TickCoversJoinedRooms ==
    [][(marketTimerDue /\ ~marketTimerDue') => broadcastSet' = JoinedSymbols
      ]_vars

\* the union the marketDataInterval callback computes over connectedUsers
SubscribedSymbols ==
    UNION {connectedUsers[u].subscriptions : u \in DOMAIN connectedUsers}

\* C11: a step that leaves an authenticated connection and its rooms as they
\* are (a connect, disconnect, subscribe or unsubscribe of another
\* connection) leaves every symbol of its rooms that the periodic broadcast
\* collects in the set the broadcast collects.
C11_SubscriptionsPerConnection ==
    [][\A k \in DOMAIN sockets \cap DOMAIN sockets' :
          (sockets'[k] = sockets[k] /\ sockets[k].userId # Anonymous) =>
             \A symbol \in Symbols :
                (/\ Room("market", symbol) \in sockets[k].rooms
                 /\ symbol \in SubscribedSymbols)
                   => symbol \in SubscribedSymbols'
      ]_vars

\* C14: every market_data_update emitted to a room market_<SYMBOL> carries
\* entries of status success only: a symbol whose batch entry is a failure
\* is not emitted to its room.
C14_NoErrorEntriesBroadcast ==
    \A e \in emitted :
        (e.event = "market_data_update" /\ e.to[1] = "market") =>
            \A key \in DOMAIN e.data : e.data[key].status = "success"

\* the symbols whose room the step takes connection k into
JoinedInStep(k) ==
    {symbol \in Symbols :
        /\ Room("market", symbol) \notin sockets[k].rooms
        /\ Room("market", symbol) \in sockets'[k].rooms}

\* C19: the step that takes a connection into the room of a symbol emits to
\* that connection a market_data_update whose data has an entry for each
\* symbol of the request (under the symbol as requested or in upper case)
\* and for no other symbol.
C19_SnapshotOnSubscribe ==
    [][\A k \in DOMAIN sockets \cap DOMAIN sockets' :
          JoinedInStep(k) # {} =>
             \E e \in emitted' :
                /\ e.event = "market_data_update"
                /\ e.to[1] = "socket"
                /\ e.to[2] = k
                /\ \E symbols \in SnapshotSubscriptions :
                      /\ JoinedInStep(k) \subseteq
                            {ToUpperCase(symbol) : symbol \in SeqToSet(symbols)}
                      /\ \A symbol \in SeqToSet(symbols) :
                            \/ symbol \in DOMAIN e.data
                            \/ ToUpperCase(symbol) \in DOMAIN e.data
                      /\ \A key \in DOMAIN e.data :
                            \E symbol \in SeqToSet(symbols) :
                               key \in {symbol, ToUpperCase(symbol)}
      ]_vars

\* C20: a tick of marketDataInterval at which no room market_<SYMBOL> has a
\* member collects no symbol, so it makes no batch fetch (the cache and the
\* collection stay as they are) and emits nothing.
C20_EmptyTickDoesNothing ==
    [][(marketTimerDue /\ ~marketTimerDue' /\ JoinedSymbols = {}) =>
          /\ broadcastSet' = {}
          /\ emitted' = {}
          /\ cache' = cache
          /\ mdStore' = mdStore
      ]_vars

\* a tick has run with nothing collected after a connection of u1, which
\* had subscribed before the clock moved, has left its rooms again
C20_Witness ==
    /\ now >= marketDataIntervalMs
    /\ ~marketTimerDue
    /\ broadcastSet = {}
    /\ emitted = {}
    /\ JoinedSymbols = {}
    /\ DOMAIN sockets = {1}
    /\ sockets[1].userId = "u1"
    /\ DOMAIN cache # {}
    /\ \A key \in DOMAIN cache : cache[key].timestamp < now

UserRoomKinds == {"portfolio", "alerts"}

\* C22: every member of a room portfolio_<userId> or alerts_<userId> is a
\* connection authenticated as that user: an anonymous connection is in no
\* such room and an authenticated one only in those of its own user id.
C22_UserRoomsOnlyForOwner ==
    \A k \in DOMAIN sockets : \A room \in sockets[k].rooms :
        room[1] \in UserRoomKinds =>
            /\ sockets[k].userId # Anonymous
            /\ room[2] = sockets[k].userId

\* an anonymous connection is in a symbol room and a news room, and a
\* connection of a user is in those and in both rooms of its user
C22_Witness ==
    \E k, j \in DOMAIN sockets :
        /\ sockets[k].userId = Anonymous
        /\ sockets[k].rooms = {Room("market", "NIFTY"), Room("news", "markets")}
        /\ sockets[j].userId = "u2"
        /\ sockets[j].rooms =
              {Room("market", "NIFTY"), Room("news", "markets"),
               Room("portfolio", "u2"), Room("alerts", "u2")}

\* C23: every event a tick of marketDataInterval emits goes to the room
\* market_<S> of a symbol S the tick collected, and its payload has the entry
\* of S and of no other symbol.
C23_PayloadScopedToRoom ==
    [][(marketTimerDue /\ ~marketTimerDue') =>
          \A e \in emitted' :
             /\ e.event = "market_data_update"
             /\ e.to[1] = "market"
             /\ e.to[2] \in broadcastSet'
             /\ DOMAIN e.data = {e.to[2]}
      ]_vars

\* a tick has collected two symbols and has emitted to each of the two rooms
\* a payload with that room's symbol only
C23_Witness ==
    /\ ~marketTimerDue
    /\ broadcastSet = {"NIFTY", "TCS"}
    /\ Cardinality(emitted) = 2
    /\ \A symbol \in broadcastSet :
          \E e \in emitted :
             /\ e.to = Room("market", symbol)
             /\ DOMAIN e.data = {symbol}

====
